---- MODULE Spec2Model ----
(***************************************************************************)
(* Batch synchronisation of "order" / order_detail (Database A, Source)    *)
(* into order_main / order_detail_main (Database B, Target).               *)
(*                                                                         *)
(* Scripts modelled:                                                       *)
(*   copy_order_data_upsert.py   ON CONFLICT (faktur_id) DO UPDATE         *)
(*   copy_order_data.py          ON CONFLICT (faktur_id, faktur_date,      *)
(*                               customer_id) DO NOTHING                   *)
(*   copy_data_simple.py         ON CONFLICT (order_id) DO UPDATE          *)
(*   copy_april_fixed.py         clean, then as copy_data_simple           *)
(*   fill_order_detail_main.py   plain INSERT of lines built from outbound *)
(*   clean_april_data.py         deletes the April rows of one warehouse   *)
(*                                                                         *)
(* The schema of Target is fixed at Init to the unique keys the script run *)
(* against it names in ON CONFLICT.  UNIQUE (faktur_id) is taken as given  *)
(* for copy_order_data_upsert.py: no DDL of the repository creates it.     *)
(* fill_order_detail_main.py selects om.id; it is read as order_main's key *)
(* order_id, the column order_detail_main.order_id references.             *)
(*                                                                         *)
(* SQL semantics used: a UNIQUE constraint treats NULLs as distinct, so an *)
(* ON CONFLICT target never fires on a row whose key holds a NULL; a       *)
(* statement that raises aborts the transaction, and rollback() discards   *)
(* everything executed since the last commit().  SERIAL values are taken   *)
(* from a counter that never hands out the same value twice.               *)
(***************************************************************************)
EXTENDS Integers, Sequences, FiniteSets, TLC

NULL == "NULL"

\* ---------------------------------------------------------------- bounds
BatchSize == 2
MaxRetriesBound == 2
MaxRuns == 2
MaxEdits == 1
InsertBatch == 2
MissingCap == 2

\* ------------------------------------------------------- value universes
BadDate == 252025
GoodDate == 7
NullDate == 0
StartDate == 1
EndDate == 2
Warehouse == "W1"

Storable(d) == d # BadDate

\* Rows the Source tables are drawn from.  Orders 1 and 2 share a
\* faktur_id and a faktur_date (non-unique natural key, tie in ORDER BY);
\* order 2 has no customer; order 3 carries a value the Target column
\* rejects; order 4 belongs to another warehouse and carries the faktur_id
\* of order 5.  do_number is the document reference of the order's
\* outbound document; here it reads as the faktur_id does.
OrderPool ==
  { [order_id |-> 1, do_number |-> "F1", faktur_id |-> "F1", faktur_date |-> 1, customer_id |-> "C1",
     warehouse_id |-> "W1", status |-> "new", created_by |-> "u1", delivery_date |-> GoodDate],
    [order_id |-> 2, do_number |-> "F1", faktur_id |-> "F1", faktur_date |-> 1, customer_id |-> NULL,
     warehouse_id |-> "W1", status |-> "new", created_by |-> "u2", delivery_date |-> GoodDate],
    [order_id |-> 3, do_number |-> "F3", faktur_id |-> "F3", faktur_date |-> 2, customer_id |-> "C1",
     warehouse_id |-> "W1", status |-> "new", created_by |-> "u1", delivery_date |-> BadDate],
    [order_id |-> 4, do_number |-> "F5", faktur_id |-> "F5", faktur_date |-> 1, customer_id |-> "C1",
     warehouse_id |-> "W2", status |-> "new", created_by |-> "u1", delivery_date |-> GoodDate],
    [order_id |-> 5, do_number |-> "F5", faktur_id |-> "F5", faktur_date |-> 2, customer_id |-> "C1",
     warehouse_id |-> "W1", status |-> "new", created_by |-> "u1", delivery_date |-> GoodDate] }

\* order_detail rows of the Source.  The line under order 2 (the order
\* without customer) has no line_id; order 4 is of the other warehouse.
LinePool ==
  { [order_id |-> 1, product_id |-> "P1", line_id |-> "L1", quantity_faktur |-> 10],
    [order_id |-> 2, product_id |-> "P1", line_id |-> NULL, quantity_faktur |-> 5],
    [order_id |-> 4, product_id |-> "P1", line_id |-> "L1", quantity_faktur |-> 3],
    [order_id |-> 5, product_id |-> "P1", line_id |-> "L1", quantity_faktur |-> 2] }

\* outbound_items joined to their outbound_documents, to the first
\* outbound_conversions row of the item (numerator 0: no conversion row)
\* and to mst_product_main (mst_product_id NULL: no product row).
OutboundPool ==
  { [id |-> 1, document_reference |-> "F1", product_id |-> "P2", line_id |-> "L2",
     qty |-> 2, uom |-> "CTN", numerator |-> 12, denominator |-> 1,
     mst_product_id |-> "M2"],
    [id |-> 2, document_reference |-> "F5", product_id |-> "P1", line_id |-> "L1",
     qty |-> 2, uom |-> "PCS", numerator |-> 0, denominator |-> 0,
     mst_product_id |-> "M1"] }

Schemas == {"faktur", "triple", "exact"}

ScriptsOf(sch) ==
  CASE sch = "faktur" -> {"upsert", "fill"}
    [] sch = "triple" -> {"composite", "fill"}
    [] sch = "exact"  -> {"simple", "april", "fill"}

VARIABLES
  srcOrders,       \* Source table "order"
  srcLines,        \* Source table order_detail
  tgtOrders,       \* Target table order_main (committed rows)
  tgtLines,        \* Target table order_detail_main (committed rows)
  nextOrderId,     \* order_main.order_id SERIAL
  nextDetailId,    \* order_detail_main.order_detail_id SERIAL
  schema,          \* which script family the Target schema was created for
  script,          \* the script running, "none" when no invocation is active
  pc,              \* position of the running invocation
  total_records, offset, batch_data, processed_records,
  retry_count, copied_count, failed_count, max_retries,
  log,             \* natural keys written to the log by skipped rows
  fetched,         \* rows of the pages the copy loop in hand has gone past
  attempts,        \* executemany calls made for the batch in hand
  ordersDone,      \* the order copy of this invocation has returned
  orderSyncs,      \* order copies that have returned since the start
  runs, edits,
  outbound,        \* Target tables outbound_items / documents / conversions
  result,          \* what the last operation returned to its caller
  written,         \* rows committed by the operation in hand
  argv,            \* command line of the entry point in hand
  conns, queries,  \* connections opened, statements issued by it
  cleansedDocs,    \* Target table cleansed_outbound_documents
  cleansedItems,   \* Target table cleansed_outbound_items
  cleanPayload,    \* Target table order_clean_payload
  payloadResults,  \* Target table cleaning_payload_results
  nextPayloadId    \* SERIAL of the two payload tables

vars == << srcOrders, srcLines, tgtOrders, tgtLines, nextOrderId, nextDetailId,
           schema, script, pc, total_records, offset, batch_data,
           processed_records, retry_count, copied_count, failed_count,
           max_retries, log, fetched, attempts, ordersDone, orderSyncs, runs,
           edits, outbound, result, written, argv, conns, queries,
           cleansedDocs, cleansedItems, cleanPayload, payloadResults,
           nextPayloadId >>

\* ------------------------------------------------------------ sequences
Min(a, b) == IF a < b THEN a ELSE b

Range(s) == {s[i] : i \in 1..Len(s)}

\* Every listing of the rows S in no stated order.
AnyOrder(S) ==
  LET n == Cardinality(S)
  IN { s \in [1..n -> S] : \A i, j \in 1..n : i # j => s[i] # s[j] }

\* Every listing of the rows S that ORDER BY faktur_date may return: rows
\* with equal dates come in any order.
OrderedBy(S) ==
  { s \in AnyOrder(S) :
      \A i, j \in 1..Len(s) : i < j => s[i].faktur_date <= s[j].faktur_date }

\* LIMIT lim OFFSET off of a listing.
Page(s, lim, off) == SubSeq(s, off + 1, Min(off + lim, Len(s)))

\* ----------------------------------------------------- order extraction
InRangeOrder(o) ==
  /\ o.faktur_date >= StartDate
  /\ o.faktur_date <= EndDate
  /\ o.warehouse_id = Warehouse

\* WHERE clause of the order count and page queries of a script.
OrderFilter(sc, o) ==
  IF sc \in {"simple", "april"}
  THEN InRangeOrder(o) /\ o.faktur_id # NULL /\ o.customer_id # NULL
  ELSE InRangeOrder(o)

OrderPages(sc, off) ==
  { Page(s, BatchSize, off) :
      s \in OrderedBy({o \in srcOrders : OrderFilter(sc, o)}) }

\* ------------------------------------------------- order_main statements
\* The order_main row an INSERT builds from a fetched Source row.
NewOrderRow(r, id) ==
  [order_id |-> id, do_number |-> r.do_number, faktur_id |-> r.faktur_id,
   faktur_date |-> r.faktur_date,
   customer_id |-> r.customer_id, warehouse_id |-> r.warehouse_id,
   status |-> r.status, created_by |-> r.created_by,
   delivery_date |-> r.delivery_date]

\* A statement's outcome: ok = FALSE when it raised.
Raised(T, nid) == [ok |-> FALSE, tbl |-> T, next |-> nid]
Done(T, nid) == [ok |-> TRUE, tbl |-> T, next |-> nid]

\* SET list of ON CONFLICT (faktur_id) DO UPDATE: created_date and
\* created_by are not in it.
UpsertSetList(t, r) ==
  [t EXCEPT !.do_number = r.do_number,
            !.faktur_date = r.faktur_date, !.customer_id = r.customer_id,
            !.warehouse_id = r.warehouse_id, !.status = r.status,
            !.delivery_date = r.delivery_date]

\* INSERT ... ON CONFLICT (faktur_id) DO UPDATE SET ...
UpsertOrder(T, nid, r) ==
  LET hit == {t \in T : r.faktur_id # NULL /\ t.faktur_id = r.faktur_id}
  IN IF ~Storable(r.delivery_date) THEN Raised(T, nid)
     ELSE IF hit = {} THEN Done(T \cup {NewOrderRow(r, nid)}, nid + 1)
     ELSE Done((T \ hit) \cup {UpsertSetList(t, r) : t \in hit}, nid)

\* Rows of T that collide with r on UNIQUE(faktur_id, faktur_date,
\* customer_id); a NULL in the key never collides.
CompositeConflict(T, r) ==
  {t \in T : /\ r.faktur_id # NULL /\ r.customer_id # NULL
             /\ t.faktur_id = r.faktur_id
             /\ t.faktur_date = r.faktur_date
             /\ t.customer_id = r.customer_id}

\* INSERT ... ON CONFLICT (faktur_id, faktur_date, customer_id) DO NOTHING
InsertOrderComposite(T, nid, r) ==
  IF ~Storable(r.delivery_date) THEN Raised(T, nid)
  ELSE IF CompositeConflict(T, r) = {} THEN Done(T \cup {NewOrderRow(r, nid)}, nid + 1)
  ELSE Done(T, nid)

\* INSERT (order_id copied from the Source) ON CONFLICT (order_id) DO
\* UPDATE SET <every other column>
UpsertOrderById(T, nid, r) ==
  LET hit == {t \in T : t.order_id = r.order_id}
  IN IF ~Storable(r.delivery_date) THEN Raised(T, nid)
     ELSE Done((T \ hit) \cup {NewOrderRow(r, r.order_id)}, nid)

OrderStatement(sc, T, nid, r) ==
  CASE sc = "upsert"    -> UpsertOrder(T, nid, r)
    [] sc = "composite" -> InsertOrderComposite(T, nid, r)
    [] OTHER            -> UpsertOrderById(T, nid, r)

\* cursor.executemany(statement, rows): the rows one after the other in
\* the open transaction, stopping at the first statement that raises.
RECURSIVE ExecOrders(_, _, _, _)
ExecOrders(sc, T, nid, rows) ==
  IF rows = << >> THEN Done(T, nid)
  ELSE LET one == OrderStatement(sc, T, nid, Head(rows))
       IN IF one.ok THEN ExecOrders(sc, one.tbl, one.next, Tail(rows)) ELSE one

\* A rollback that keeps the rows the failed transaction wrote: the
\* behaviour C4 rules out.
RollbackKeepsWork(committed, working) == working

\* conn.rollback(): the committed table, whatever the transaction did.
Rollback(committed, working) == committed

\* ------------------------------------------------------ line extraction
\* A fetched order_detail row: the line's columns, the order_id column of
\* the SELECT list, and the parent's natural key.
JoinedLine(l, o, oid) ==
  [order_id |-> oid, product_id |-> l.product_id, line_id |-> l.line_id,
   quantity_faktur |-> l.quantity_faktur, faktur_id |-> o.faktur_id,
   faktur_date |-> o.faktur_date, customer_id |-> o.customer_id]

InDates(o) == o.faktur_date >= StartDate /\ o.faktur_date <= EndDate

\* SELECT COUNT(*) FROM order_detail od JOIN "order" o ... of a script.
LineCount(sc) ==
  Cardinality({<<l, o>> \in srcLines \X srcOrders :
                 l.order_id = o.order_id /\ OrderFilter(sc, o)})

\* The rows of the page query of a script, before ORDER BY.  The upsert
\* script joins order_main on faktur_id and has no warehouse condition in
\* its WHERE clause; the other scripts repeat the count query's WHERE.
LineRows(sc, O) ==
  IF sc = "upsert"
  THEN { JoinedLine(x[1], x[2], x[3].order_id) :
           x \in { y \in srcLines \X srcOrders \X O :
                     /\ y[1].order_id = y[2].order_id
                     /\ y[2].faktur_id = y[3].faktur_id
                     /\ InDates(y[2]) } }
  ELSE { JoinedLine(x[1], x[2], x[1].order_id) :
           x \in { y \in srcLines \X srcOrders :
                     y[1].order_id = y[2].order_id /\ OrderFilter(sc, y[2]) } }

LinePages(sc, O, off) ==
  { Page(s, BatchSize, off) : s \in OrderedBy(LineRows(sc, O)) }

\* ---------------------------------------------------- identity resolver
NaturalKey(r) == << r.faktur_id, r.faktur_date, r.customer_id >>

\* The order_ids the lookup query of a script can return for a fetched row.
Lookup(sc, O, r) ==
  CASE sc = "composite" ->
         IF r.customer_id = NULL THEN {}
         ELSE { t.order_id : t \in { u \in O : /\ u.faktur_id = r.faktur_id
                                               /\ u.faktur_date = r.faktur_date
                                               /\ u.customer_id = r.customer_id } }
    [] sc = "april" ->
         { t.order_id : t \in { u \in O : /\ u.faktur_id = r.faktur_id
                                          /\ u.faktur_date = r.faktur_date
                                          /\ u.customer_id = r.customer_id } }
    [] sc = "simple" ->
         { t.order_id : t \in { u \in O : u.order_id = r.order_id } }
    [] OTHER -> {r.order_id}

\* The possible processed_records of a fetched batch: each row with the
\* order_id fetchone() returned, the rows without a result dropped.
RECURSIVE ResolveRows(_, _, _)
ResolveRows(sc, O, rows) ==
  IF rows = << >> THEN { << >> }
  ELSE LET rest == ResolveRows(sc, O, Tail(rows))
       IN IF Lookup(sc, O, Head(rows)) = {} THEN rest
          ELSE { << [Head(rows) EXCEPT !.order_id = id] >> \o s :
                   id \in Lookup(sc, O, Head(rows)), s \in rest }

Unresolved(sc, O, rows) == { r \in Range(rows) : Lookup(sc, O, r) = {} }

\* What a script writes to the log for an unresolved row.
LogEntry(sc, r) == IF sc = "simple" THEN << r.order_id >> ELSE NaturalKey(r)

\* failed_count += 1 exists in copy_april_order_details only.
CountsFailures(sc) == sc = "april"

\* ------------------------------------------ order_detail_main statements
NewLineRow(r, id) ==
  [order_detail_id |-> id, order_id |-> r.order_id, product_id |-> r.product_id,
   line_id |-> r.line_id, quantity_faktur |-> r.quantity_faktur]

\* order_detail_main.order_id without its REFERENCES clause.
NoForeignKey(O, r) == TRUE

\* order_id INTEGER REFERENCES order_main(order_id)
ForeignKeyOk(O, r) == \E o \in O : o.order_id = r.order_id

\* Rows colliding on UNIQUE(order_id, product_id, line_id).
LineConflict(T, r) ==
  {t \in T : /\ r.product_id # NULL /\ r.line_id # NULL
             /\ t.order_id = r.order_id
             /\ t.product_id = r.product_id
             /\ t.line_id = r.line_id}

\* INSERT ... ON CONFLICT (order_id, product_id, line_id) DO UPDATE SET ...
UpsertLine(O, T, nid, r) ==
  LET hit == LineConflict(T, r)
  IN IF ~ForeignKeyOk(O, r) THEN Raised(T, nid)
     ELSE IF hit = {} THEN Done(T \cup {NewLineRow(r, nid)}, nid + 1)
     ELSE Done((T \ hit) \cup {[t EXCEPT !.quantity_faktur = r.quantity_faktur] : t \in hit}, nid)

\* INSERT ... ON CONFLICT (order_id, product_id, line_id) DO NOTHING
InsertLineComposite(O, T, nid, r) ==
  IF ~ForeignKeyOk(O, r) THEN Raised(T, nid)
  ELSE IF LineConflict(T, r) = {} THEN Done(T \cup {NewLineRow(r, nid)}, nid + 1)
  ELSE Done(T, nid)

LineStatement(sc, O, T, nid, r) ==
  IF sc = "composite" THEN InsertLineComposite(O, T, nid, r)
  ELSE UpsertLine(O, T, nid, r)

RECURSIVE ExecLines(_, _, _, _, _)
ExecLines(sc, O, T, nid, rows) ==
  IF rows = << >> THEN Done(T, nid)
  ELSE LET one == LineStatement(sc, O, T, nid, Head(rows))
       IN IF one.ok THEN ExecLines(sc, O, one.tbl, one.next, Tail(rows)) ELSE one

\* ---------------------------------------------------------------- state
src == << srcOrders, srcLines >>
tgt == << tgtOrders, tgtLines, nextOrderId, nextDetailId >>
locals == << total_records, offset, batch_data, processed_records,
             retry_count, copied_count, fetched >>
hist == << attempts, ordersDone, orderSyncs >>

\* What the copy scripts leave alone: the outbound tables, the tables of
\* the comparison and payload services, and the other entry points.
side == << outbound, result, written, argv, conns, queries, cleansedDocs,
           cleansedItems, cleanPayload, payloadResults, nextPayloadId >>

SideInit ==
  /\ outbound = OutboundPool
  /\ result = << >> /\ written = 0
  /\ argv = << >> /\ conns = 0 /\ queries = 0
  /\ cleansedDocs = {} /\ cleansedItems = {}
  /\ cleanPayload = {} /\ payloadResults = {}
  /\ nextPayloadId = 1

\* The scripts that wrap the write in "while retry_count < max_retries".
HasRetry(sc) == sc \in {"upsert", "composite"}

ParentInSource(O, l) == \E o \in O : o.order_id = l.order_id

Init ==
  /\ srcOrders \in {S \in SUBSET OrderPool : \A o \in OrderPool : o.warehouse_id # Warehouse => o \in S}
  /\ srcLines = {l \in LinePool : ParentInSource(srcOrders, l)}
  /\ schema \in Schemas
  /\ tgtOrders = {} /\ tgtLines = {}
  /\ nextOrderId = 1 /\ nextDetailId = 1
  /\ script = "none" /\ pc = "idle"
  /\ total_records = 0 /\ offset = 0
  /\ batch_data = << >> /\ processed_records = << >>
  /\ retry_count = 0 /\ copied_count = 0 /\ failed_count = 0
  /\ max_retries = 0
  /\ log = {} /\ fetched = << >>
  /\ attempts = 0 /\ ordersDone = FALSE /\ orderSyncs = 0
  /\ runs = 0 /\ edits = 0
  /\ SideInit

\* main(): arguments parsed, connections opened.
StartRun(sc, mr) ==
  /\ pc = "idle" /\ runs < MaxRuns
  /\ sc \in ScriptsOf(schema)
  /\ script' = sc
  /\ max_retries' = IF HasRetry(sc) THEN mr ELSE 0
  /\ runs' = runs + 1
  /\ pc' = IF sc = "april" THEN "clean"
           ELSE IF sc = "fill" THEN "f_orders" ELSE "o_count"
  /\ UNCHANGED << side, src, tgt, schema, locals, failed_count, log, hist, edits >>

\* April 2025 in the model's calendar.
AprilStart == 1
AprilEnd == 2
InApril(o) == o.faktur_date >= AprilStart /\ o.faktur_date <= AprilEnd

\* copy_april_fixed.clean_april_data: every April order, of any warehouse,
\* and the lines under them, in one transaction.
CleanStep ==
  /\ pc = "clean"
  /\ tgtLines' = {l \in tgtLines : ~\E o \in tgtOrders : InApril(o) /\ o.order_id = l.order_id}
  /\ tgtOrders' = {o \in tgtOrders : ~InApril(o)}
  /\ pc' = "o_count"
  /\ UNCHANGED << side, src, nextOrderId, nextDetailId, schema, script, locals,
                  failed_count, max_retries, log, hist, runs, edits >>

\* SELECT COUNT(*) FROM "order" ...; "if total_records == 0: return 0".
CountOrders ==
  /\ pc = "o_count"
  /\ total_records' = Cardinality({o \in srcOrders : OrderFilter(script, o)})
  /\ offset' = 0 /\ copied_count' = 0 /\ fetched' = << >>
  /\ pc' = IF total_records' = 0 THEN "d_count" ELSE "o_loop"
  /\ ordersDone' = (total_records' = 0)
  /\ orderSyncs' = IF total_records' = 0 THEN orderSyncs + 1 ELSE orderSyncs
  /\ UNCHANGED << side, src, tgt, schema, script, batch_data, processed_records,
                  retry_count, failed_count, max_retries, log, attempts, runs, edits >>

\* "while offset < total_records": fetch the page; "if not batch_data:
\* break".  When the loop ends the function returns copied_count and its
\* other locals are gone.
FetchOrders ==
  /\ pc = "o_loop"
  /\ IF offset >= total_records
     THEN /\ pc' = "d_count"
          /\ batch_data' = << >>
          /\ total_records' = 0 /\ offset' = 0
     ELSE \E page \in OrderPages(script, offset) :
            /\ batch_data' = page
            /\ pc' = IF page = << >> THEN "d_count" ELSE "o_write"
            /\ total_records' = IF page = << >> THEN 0 ELSE total_records
            /\ offset' = IF page = << >> THEN 0 ELSE offset
  /\ retry_count' = 0 /\ attempts' = 0
  /\ fetched' = IF pc' = "d_count" THEN << >> ELSE fetched
  /\ ordersDone' = (pc' = "d_count")
  /\ orderSyncs' = IF pc' = "d_count" THEN orderSyncs + 1 ELSE orderSyncs
  /\ UNCHANGED << side, src, tgt, schema, script, processed_records, copied_count,
                  failed_count, max_retries, log, runs, edits >>

\* Whether the script enters the body that executes the batch.
Attempts(sc) == HasRetry(sc) => retry_count < max_retries

\* A retry test that is off by one: the exhausted batch is not raised.
AfterFailureOffByOne(sc, rc) == IF HasRetry(sc) /\ rc <= max_retries THEN "retry" ELSE "raise"

\* After a failed attempt: retry, or raise to main(), which exits.
AfterFailure(sc, rc) == IF HasRetry(sc) /\ rc < max_retries THEN "retry" ELSE "raise"

\* A main() that logs the order copy's exception and goes on to the
\* line copy.
OrdersRaisedSwallowed == "d_count"

\* main(): "except Exception: ... sys.exit(1)" around the two copies: an
\* exception out of either ends the invocation.
OrdersRaised == "o_failed"
LinesRaised == "d_failed"

\* executemany + commit succeeded.
WriteOrders ==
  /\ pc = "o_write" /\ Attempts(script)
  /\ LET res == ExecOrders(script, tgtOrders, nextOrderId, batch_data)
     IN /\ res.ok
        /\ tgtOrders' = res.tbl
        /\ nextOrderId' = res.next
  /\ copied_count' = copied_count + Len(batch_data)
  /\ offset' = offset + BatchSize
  /\ fetched' = fetched \o batch_data
  /\ attempts' = attempts + 1
  /\ pc' = "o_loop"
  /\ UNCHANGED << side, src, tgtLines, nextDetailId, schema, script, total_records,
                  batch_data, processed_records, retry_count, failed_count,
                  max_retries, log, ordersDone, orderSyncs, runs, edits >>

\* A handler that moves on to the next page when the write raised.
WriteOrdersFailAdvancing ==
  /\ pc = "o_write" /\ Attempts(script)
  /\ \E k \in 0..Len(batch_data) :
       LET res == ExecOrders(script, tgtOrders, nextOrderId, SubSeq(batch_data, 1, k))
       IN tgtOrders' = Rollback(tgtOrders, res.tbl)
  /\ retry_count' = retry_count + 1
  /\ attempts' = attempts + 1
  /\ offset' = offset + BatchSize
  /\ pc' = IF AfterFailure(script, retry_count') = "retry" THEN "o_write" ELSE OrdersRaised
  /\ UNCHANGED << side, src, tgtLines, nextOrderId, nextDetailId, schema, script,
                  total_records, batch_data, processed_records,
                  copied_count, failed_count, max_retries, log, fetched,
                  ordersDone, orderSyncs, runs, edits >>

\* executemany or commit raised after k rows: a statement the Target
\* rejects, or a transient error at any point.  rollback(), then retry
\* or raise.
WriteOrdersFail ==
  /\ pc = "o_write" /\ Attempts(script)
  /\ \E k \in 0..Len(batch_data) :
       LET res == ExecOrders(script, tgtOrders, nextOrderId, SubSeq(batch_data, 1, k))
       IN tgtOrders' = Rollback(tgtOrders, res.tbl)
  /\ retry_count' = retry_count + 1
  /\ attempts' = attempts + 1
  /\ pc' = IF AfterFailure(script, retry_count') = "retry" THEN "o_write" ELSE OrdersRaised
  /\ UNCHANGED << side, src, tgtLines, nextOrderId, nextDetailId, schema, script,
                  total_records, offset, batch_data, processed_records,
                  copied_count, failed_count, max_retries, log, fetched,
                  ordersDone, orderSyncs, runs, edits >>

\* max_retries = 0: the retry loop's body never runs and the outer loop
\* comes round with the same offset.
NoAttemptOrders ==
  /\ pc = "o_write" /\ ~Attempts(script)
  /\ pc' = "o_loop"
  /\ UNCHANGED << side, src, tgt, schema, script, locals, failed_count,
                  max_retries, log, hist, runs, edits >>

\* SELECT COUNT(*) FROM order_detail od JOIN "order" o ...
CountLines ==
  /\ pc = "d_count"
  /\ total_records' = LineCount(script)
  /\ offset' = 0 /\ copied_count' = 0 /\ fetched' = << >>
  /\ pc' = IF total_records' = 0 THEN "done" ELSE "d_loop"
  /\ UNCHANGED << side, src, tgt, schema, script, batch_data, processed_records,
                  retry_count, failed_count, max_retries, log, hist, runs, edits >>

NumUnresolved(sc, O, rows) ==
  Cardinality({i \in 1..Len(rows) : Lookup(sc, O, rows[i]) = {}})

\* Fetch the page and look up every row's order_id in order_main; a page
\* without resolved rows only advances the offset.
FetchLines ==
  /\ pc = "d_loop"
  /\ IF offset >= total_records
     THEN /\ pc' = "done"
          /\ batch_data' = << >> /\ processed_records' = << >>
          /\ fetched' = << >>
          /\ UNCHANGED << offset, failed_count, log >>
     ELSE \E page \in LinePages(script, tgtOrders, offset) :
          \E proc \in ResolveRows(script, tgtOrders, page) :
            /\ batch_data' = page
            /\ processed_records' = proc
            /\ log' = log \cup {LogEntry(script, r) : r \in Unresolved(script, tgtOrders, page)}
            /\ failed_count' = IF CountsFailures(script)
                               THEN failed_count + NumUnresolved(script, tgtOrders, page)
                               ELSE failed_count
            /\ offset' = IF page # << >> /\ proc = << >> THEN offset + BatchSize ELSE offset
            /\ fetched' = IF page = << >> THEN << >>
                           ELSE IF proc = << >> THEN fetched \o page ELSE fetched
            /\ pc' = IF page = << >> THEN "done"
                     ELSE IF proc = << >> THEN "d_loop" ELSE "d_write"
  /\ retry_count' = 0 /\ attempts' = 0
  /\ UNCHANGED << side, src, tgt, schema, script, total_records, copied_count,
                  max_retries, ordersDone, orderSyncs, runs, edits >>

WriteLines ==
  /\ pc = "d_write" /\ Attempts(script)
  /\ LET res == ExecLines(script, tgtOrders, tgtLines, nextDetailId, processed_records)
     IN /\ res.ok
        /\ tgtLines' = res.tbl
        /\ nextDetailId' = res.next
  /\ copied_count' = copied_count + Len(processed_records)
  /\ offset' = offset + BatchSize
  /\ fetched' = fetched \o batch_data
  /\ attempts' = attempts + 1
  /\ pc' = "d_loop"
  /\ UNCHANGED << side, src, tgtOrders, nextOrderId, schema, script, total_records,
                  batch_data, processed_records, retry_count, failed_count,
                  max_retries, log, ordersDone, orderSyncs, runs, edits >>

WriteLinesFail ==
  /\ pc = "d_write" /\ Attempts(script)
  /\ \E k \in 0..Len(processed_records) :
       LET res == ExecLines(script, tgtOrders, tgtLines, nextDetailId,
                            SubSeq(processed_records, 1, k))
       IN tgtLines' = Rollback(tgtLines, res.tbl)
  /\ retry_count' = retry_count + 1
  /\ attempts' = attempts + 1
  /\ pc' = IF AfterFailure(script, retry_count') = "retry" THEN "d_write" ELSE LinesRaised
  /\ UNCHANGED << side, src, tgtOrders, nextOrderId, nextDetailId, schema, script,
                  total_records, offset, batch_data, processed_records,
                  copied_count, failed_count, max_retries, log, fetched,
                  ordersDone, orderSyncs, runs, edits >>

\* ------------------------------------------------------------ fill path
\* fill_order_detail_main.calculate_quantities: quantity_faktur.
calculate_quantities(item) ==
  IF item.uom # "PCS" /\ item.numerator # 0 THEN item.qty * item.numerator
  ELSE item.qty

\* order_mapping = {order['faktur_id']: order['order_id'] for order in
\* orders}: the last order of the listing with that faktur_id, 0 for none.
OrderMapping(orders, f) ==
  LET hits == {i \in 1..Len(orders) : orders[i].faktur_id = f}
  IN IF hits = {} THEN 0
     ELSE orders[CHOOSE i \in hits : \A j \in hits : j <= i].order_id

FilledLine(item, oid) ==
  [order_id |-> oid, product_id |-> item.product_id, line_id |-> item.line_id,
   quantity_faktur |-> calculate_quantities(item)]

\* INSERT INTO order_detail_main ... VALUES ...: no ON CONFLICT clause.
InsertLine(O, T, nid, r) ==
  IF ~ForeignKeyOk(O, r) \/ LineConflict(T, r) # {} THEN Raised(T, nid)
  ELSE Done(T \cup {NewLineRow(r, nid)}, nid + 1)

\* The loop of insert_order_detail_records from row i on, inserted_count
\* being n: a row without a mapped order is passed over; a row whose
\* INSERT raises (row f by a transient error) rolls the open transaction
\* back and the loop goes on; each INSERT that returns adds one to
\* inserted_count.
RECURSIVE FillRows(_, _, _, _, _, _, _, _, _, _)
FillRows(O, T0, nid0, T, nid, orders, rows, i, f, n) ==
  IF i > Len(rows) THEN [ok |-> TRUE, tbl |-> T, next |-> nid, inserted_count |-> n]
  ELSE LET oid == OrderMapping(orders, rows[i].document_reference)
           one == InsertLine(O, T, nid, FilledLine(rows[i], oid))
       IN IF oid = 0 THEN FillRows(O, T0, nid0, T, nid, orders, rows, i + 1, f, n)
          ELSE IF i = f \/ ~one.ok
          THEN FillRows(O, T0, nid0, Rollback(T0, T), nid0, orders, rows, i + 1, f, n)
          ELSE FillRows(O, T0, nid0, one.tbl, one.next, orders, rows, i + 1, f, n + 1)

\* The query without its "odm.order_id IS NULL": every order of the
\* warehouse and range.
OrdersOfRange == {o \in tgtOrders : o.warehouse_id = Warehouse /\ InDates(o)}

\* get_orders_without_details: orders of the warehouse and range with no
\* row in order_detail_main.
OrdersWithoutDetails ==
  {o \in tgtOrders : /\ o.warehouse_id = Warehouse /\ InDates(o)
                     /\ ~\E l \in tgtLines : l.order_id = o.order_id}

\* get_outbound_data_for_orders: the items of the documents whose
\* document_reference is one of the orders' faktur_id, in any order.
OutboundData(orders) ==
  AnyOrder({it \in outbound : \E o \in orders : o.faktur_id = it.document_reference})

\* Steps 1 and 2 of fill main(), with the two early returns.
FillOrders ==
  /\ pc = "f_orders"
  /\ \E orders \in OrderedBy(OrdersWithoutDetails) :
     \E data \in OutboundData(OrdersWithoutDetails) :
       /\ batch_data' = orders
       /\ processed_records' = data
       /\ pc' = IF orders = << >> \/ data = << >> THEN "done" ELSE "f_insert"
  /\ UNCHANGED << side, src, tgt, schema, script, total_records, offset, retry_count,
                  copied_count, failed_count, max_retries, log, fetched, hist,
                  runs, edits >>

\* Step 3: insert_order_detail_records, its loop and the commit after it,
\* returning inserted_count; a commit that raises rolls back and main()
\* returns 1.
FillInsert ==
  /\ pc = "f_insert"
  /\ \E f \in 0..Len(processed_records), committed \in BOOLEAN :
       LET res == FillRows(tgtOrders, tgtLines, nextDetailId, tgtLines, nextDetailId,
                           batch_data, processed_records, 1, f, 0)
       IN /\ tgtLines' = IF committed THEN res.tbl ELSE Rollback(tgtLines, res.tbl)
          /\ nextDetailId' = IF committed THEN res.next ELSE nextDetailId
          /\ copied_count' = IF committed THEN res.inserted_count ELSE copied_count
          /\ pc' = IF committed THEN "done" ELSE LinesRaised
  /\ UNCHANGED << side, src, tgtOrders, nextOrderId, schema, script, total_records,
                  offset, batch_data, processed_records, retry_count, fetched,
                  failed_count, max_retries, log, hist, runs, edits >>

Running == pc \in {"clean", "o_count", "o_loop", "o_write", "d_count", "d_loop",
                   "d_write", "f_orders", "f_insert"}

\* The process is gone: its locals with it.
Exit ==
  /\ pc' = "idle" /\ script' = "none"
  /\ total_records' = 0 /\ offset' = 0
  /\ batch_data' = << >> /\ processed_records' = << >>
  /\ retry_count' = 0 /\ copied_count' = 0 /\ failed_count' = 0
  /\ max_retries' = 0
  /\ log' = {} /\ fetched' = << >>
  /\ attempts' = 0 /\ ordersDone' = FALSE
  /\ UNCHANGED << side, src, tgt, schema, orderSyncs, runs, edits >>

\* The process is stopped between two of its steps; the connections
\* close and an open transaction is discarded.
Cancel == Running /\ Exit

\* The process has exited, normally or by sys.exit(1).
Finish == pc \in {"done", "o_failed", "d_failed"} /\ Exit

\* clean_april_data.py, run by an operator at any moment: the April
\* orders of the warehouse and the lines under them, in one transaction.
CleanAprilData ==
  /\ \E o \in tgtOrders : InApril(o) /\ o.warehouse_id = Warehouse
  /\ tgtLines' = {l \in tgtLines :
                    ~\E o \in tgtOrders : /\ InApril(o) /\ o.warehouse_id = Warehouse
                                          /\ o.order_id = l.order_id}
  /\ tgtOrders' = {o \in tgtOrders : ~(InApril(o) /\ o.warehouse_id = Warehouse)}
  /\ UNCHANGED << side, src, nextOrderId, nextDetailId, schema, script, pc, locals,
                  failed_count, max_retries, log, hist, runs, edits >>

\* The operational system changes the status of an order that has been
\* copied, between two runs.
TouchSource(o) ==
  /\ pc = "idle" /\ edits < MaxEdits
  /\ o \in srcOrders /\ o.status = "new"
  /\ \E t \in tgtOrders : t.faktur_id = o.faktur_id /\ t.faktur_date = o.faktur_date
  /\ srcOrders' = (srcOrders \ {o}) \cup {[o EXCEPT !.status = "done"]}
  /\ edits' = edits + 1
  /\ UNCHANGED << side, srcLines, tgt, schema, script, pc, locals, failed_count,
                  max_retries, log, hist, runs >>

Next ==
  \/ \E sc \in {"upsert", "composite", "simple", "april", "fill"}, mr \in {0, MaxRetriesBound} :
       StartRun(sc, mr)
  \/ CleanStep
  \/ CountOrders \/ FetchOrders \/ WriteOrders \/ WriteOrdersFail \/ NoAttemptOrders
  \/ CountLines \/ FetchLines \/ WriteLines \/ WriteLinesFail
  \/ FillOrders \/ FillInsert
  \/ Cancel \/ Finish
  \/ CleanAprilData
  \/ \E o \in srcOrders : TouchSource(o)

Spec == Init /\ [][Next]_vars

\* ------------------------------------ copy_order_details_optimized.py
\* Outbound items the optimized copy may find in the Target: those of
\* OutboundPool, a second item of document F1, and an item whose sku has
\* no row in mst_product_main.
OptimizedPool ==
  OutboundPool \cup
  { [id |-> 3, document_reference |-> "F1", product_id |-> "P3", line_id |-> "L3",
     qty |-> 1, uom |-> "PCS", numerator |-> 0, denominator |-> 0,
     mst_product_id |-> "M3"],
    [id |-> 4, document_reference |-> "F5", product_id |-> "P4", line_id |-> "L4",
     qty |-> 4, uom |-> "CTN", numerator |-> 6, denominator |-> 0,
     mst_product_id |-> NULL] }

\* order_main as a completed copy_data_simple run leaves it.
CopiedOrders(S) == { NewOrderRow(o, o.order_id) : o \in S }

\* The rows of get_optimized_outbound_data's query: the items joined to
\* their order of the warehouse and range on do_number.
OptimizedRows ==
  { [item |-> x[1], order_id |-> x[2].order_id, faktur_date |-> x[2].faktur_date] :
      x \in { y \in outbound \X tgtOrders :
                /\ y[2].do_number = y[1].document_reference
                /\ InRangeOrder(y[2]) } }

\* ORDER BY om.faktur_date, oi.id
OrderedByDateId(S) ==
  { s \in AnyOrder(S) :
      \A i, j \in 1..Len(s) :
        i < j => \/ s[i].faktur_date < s[j].faktur_date
                 \/ /\ s[i].faktur_date = s[j].faktur_date
                    /\ s[i].item.id <= s[j].item.id }

\* calculate_quantities_optimized: quantity_faktur.
calculate_quantities_optimized(qty, uom, numerator, denominator) ==
  IF uom # "PCS" /\ numerator # 0 /\ denominator # 0 THEN qty * numerator
  ELSE qty

\* Step 2 of copy_order_details_optimized: the order_detail built from a
\* result row.
OrderDetailOf(row) ==
  [order_id |-> row.order_id, product_id |-> row.item.mst_product_id,
   line_id |-> row.item.line_id,
   quantity_faktur |-> calculate_quantities_optimized(row.item.qty, row.item.uom,
                         row.item.numerator, row.item.denominator)]

HasProduct(d) == d.product_id # NULL

\* order_details_data: the rows with a product_id, in the order fetched.
RECURSIVE OrderDetailsData(_)
OrderDetailsData(rows) ==
  IF rows = << >> THEN << >>
  ELSE (IF HasProduct(OrderDetailOf(Head(rows))) THEN << OrderDetailOf(Head(rows)) >>
        ELSE << >>) \o OrderDetailsData(Tail(rows))

\* skipped_count of step 2.
SkippedItems(rows) ==
  Cardinality({i \in 1..Len(rows) : ~HasProduct(OrderDetailOf(rows[i]))})

\* skipped_count of insert_order_details_batch over the rows it was given.
SkippedInBatches(data) ==
  Cardinality({i \in 1..Len(data) : ~HasProduct(data[i])})

OptStart ==
  /\ pc = "idle" /\ runs < MaxRuns
  /\ script' = "optimized" /\ pc' = "p_fetch"
  /\ runs' = runs + 1
  /\ result' = << >> /\ written' = 0
  /\ UNCHANGED << src, tgt, schema, locals, failed_count, max_retries, log, hist,
                  edits, outbound, argv, conns, queries, cleansedDocs,
                  cleansedItems, cleanPayload, payloadResults, nextPayloadId >>

\* Steps 1 and 2: the query (an exception in it returns []), the rows
\* transformed in memory; "if not outbound_data: return 0, 0" and, in
\* insert_order_details_batch, "if not order_details_data: return 0, 0".
OptFetch ==
  /\ pc = "p_fetch"
  /\ \E raised \in BOOLEAN :
     \E rows \in (IF raised THEN {<< >>} ELSE OrderedByDateId(OptimizedRows)) :
       /\ batch_data' = OrderDetailsData(rows)
       /\ failed_count' = SkippedItems(rows)
       /\ pc' = IF batch_data' = << >> THEN "done" ELSE "p_insert"
       /\ result' = IF batch_data' = << >> THEN << 0, 0 >> ELSE result
  /\ offset' = 0 /\ copied_count' = 0
  /\ UNCHANGED << src, tgt, schema, script, total_records, processed_records,
                  retry_count, fetched, max_retries, log, hist, runs, edits,
                  outbound, written, argv, conns, queries, cleansedDocs,
                  cleansedItems, cleanPayload, payloadResults, nextPayloadId >>

\* One pass of "for i in range(0, len(order_details_data), batch_size)":
\* execute_values and commit; after the last batch the function returns
\* inserted_count, skipped_count.
OptInsert ==
  /\ pc = "p_insert"
  /\ LET batch == SelectSeq(Page(batch_data, InsertBatch, offset), HasProduct)
         res == ExecLines(script, tgtOrders, tgtLines, nextDetailId, batch)
     IN /\ res.ok
        /\ tgtLines' = res.tbl
        /\ nextDetailId' = res.next
        /\ copied_count' = copied_count + Len(batch)
        /\ written' = written + Len(batch)
  /\ offset' = offset + InsertBatch
  /\ pc' = IF offset' >= Len(batch_data) THEN "done" ELSE "p_insert"
  /\ result' = IF offset' >= Len(batch_data)
               THEN << copied_count', SkippedInBatches(batch_data) >> ELSE result
  /\ UNCHANGED << src, tgtOrders, nextOrderId, schema, script, total_records,
                  batch_data, processed_records, retry_count, fetched, failed_count,
                  max_retries, log, hist, runs, edits, outbound, argv, conns,
                  queries, cleansedDocs, cleansedItems, cleanPayload,
                  payloadResults, nextPayloadId >>

\* execute_values or commit raised: "conn_b.rollback(); return 0, 0".
OptInsertFail ==
  /\ pc = "p_insert"
  /\ \E k \in 0..Len(Page(batch_data, InsertBatch, offset)) :
       LET res == ExecLines(script, tgtOrders, tgtLines, nextDetailId,
                            SubSeq(Page(batch_data, InsertBatch, offset), 1, k))
       IN tgtLines' = Rollback(tgtLines, res.tbl)
  /\ result' = << 0, 0 >>
  /\ pc' = "done"
  /\ UNCHANGED << src, tgtOrders, nextOrderId, nextDetailId, schema, script, locals,
                  failed_count, max_retries, log, hist, runs, edits, outbound,
                  written, argv, conns, queries, cleansedDocs, cleansedItems,
                  cleanPayload, payloadResults, nextPayloadId >>

\* Target after a copy of orders 1 and 5, or of one of them, or of none,
\* with any of the outbound items loaded.
InitOptimized ==
  /\ srcOrders = OrderPool
  /\ srcLines = LinePool
  /\ schema = "exact"
  /\ \E S \in SUBSET {o \in OrderPool : InRangeOrder(o) /\ Storable(o.delivery_date)
                                        /\ o.customer_id # NULL} :
       tgtOrders = CopiedOrders(S)
  /\ tgtLines = {}
  /\ nextOrderId = 1 /\ nextDetailId = 1
  /\ script = "none" /\ pc = "idle"
  /\ total_records = 0 /\ offset = 0
  /\ batch_data = << >> /\ processed_records = << >>
  /\ retry_count = 0 /\ copied_count = 0 /\ failed_count = 0
  /\ max_retries = 0
  /\ log = {} /\ fetched = << >>
  /\ attempts = 0 /\ ordersDone = FALSE /\ orderSyncs = 0
  /\ runs = 0 /\ edits = 0
  /\ outbound \in SUBSET OptimizedPool
  /\ result = << >> /\ written = 0
  /\ argv = << >> /\ conns = 0 /\ queries = 0
  /\ cleansedDocs = {} /\ cleansedItems = {}
  /\ cleanPayload = {} /\ payloadResults = {}
  /\ nextPayloadId = 1

NextOptimized == OptStart \/ OptFetch \/ OptInsert \/ OptInsertFail \/ Finish

SpecOptimized == InitOptimized /\ [][NextOptimized]_vars

\* ------------------------------------------------- entry points: main()
\* Every variable of a copy run, for the steps that are not part of one.
sync == << src, tgt, schema, script, pc, locals, failed_count, max_retries, log,
           hist, runs, edits >>

\* No run in hand and an empty Target.
ProcessIdle ==
  /\ script = "none" /\ pc = "idle"
  /\ total_records = 0 /\ offset = 0
  /\ batch_data = << >> /\ processed_records = << >>
  /\ retry_count = 0 /\ copied_count = 0 /\ failed_count = 0
  /\ max_retries = 0
  /\ log = {} /\ fetched = << >>
  /\ attempts = 0 /\ ordersDone = FALSE /\ orderSyncs = 0
  /\ runs = 0 /\ edits = 0

\* Texts given as --start-date / --end-date, as << year, month, day >>:
\* two dates, a day April does not have, a month the year does not have.
DateArgs == { << 2025, 4, 1 >>, << 2025, 4, 2 >>, << 2025, 4, 31 >>, << 2025, 13, 1 >> }

DaysInMonth(y, m) ==
  IF m \in {4, 6, 9, 11} THEN 30
  ELSE IF m # 2 THEN 31
  ELSE IF y % 4 = 0 /\ (y % 100 # 0 \/ y % 400 = 0) THEN 29 ELSE 28

\* datetime.strptime(text, '%Y-%m-%d').date(): ok = FALSE for ValueError.
strptime(a) ==
  IF a[2] \in 1..12 /\ a[3] \in 1..DaysInMonth(a[1], a[2])
  THEN [ok |-> TRUE, year |-> a[1], month |-> a[2], day |-> a[3]]
  ELSE [ok |-> FALSE, year |-> 0, month |-> 0, day |-> 0]

\* date.__gt__
DateAfter(d, e) ==
  \/ d.year > e.year
  \/ d.year = e.year /\ d.month > e.month
  \/ d.year = e.year /\ d.month = e.month /\ d.day > e.day

EntryPoints == {"upsert", "fill", "details"}

\* What main() of an entry point does with its two date arguments before
\* it connects: "reject" (exit or return 1) or "go on".
ValidateArgs(ep, a, b) ==
  CASE ep = "upsert" ->
         IF ~strptime(a).ok \/ ~strptime(b).ok THEN "reject"
         ELSE IF DateAfter(strptime(a), strptime(b)) THEN "reject" ELSE "go on"
    [] ep = "fill" ->
         IF ~strptime(a).ok \/ ~strptime(b).ok THEN "reject" ELSE "go on"
    [] OTHER -> "go on"

\* get_db_connection calls main() makes before its first query.
Connections(ep) == IF ep = "upsert" THEN 2 ELSE 1

MainStart(ep, a, b) ==
  /\ pc = "idle"
  /\ script' = ep /\ pc' = "m_args"
  /\ argv' = << a, b >>
  /\ conns' = 0 /\ queries' = 0 /\ result' = << >>
  /\ UNCHANGED << src, tgt, schema, locals, failed_count, max_retries, log, hist,
                  runs, edits, outbound, written, cleansedDocs, cleansedItems,
                  cleanPayload, payloadResults, nextPayloadId >>

MainValidate ==
  /\ pc = "m_args"
  /\ IF ValidateArgs(script, argv[1], argv[2]) = "reject"
     THEN pc' = "m_end" /\ result' = << 1 >>
     ELSE pc' = "m_connect" /\ result' = result
  /\ UNCHANGED << src, tgt, schema, script, locals, failed_count, max_retries, log,
                  hist, runs, edits, outbound, written, argv, conns, queries,
                  cleansedDocs, cleansedItems, cleanPayload, payloadResults,
                  nextPayloadId >>

MainConnect ==
  /\ pc = "m_connect"
  /\ conns' = conns + Connections(script)
  /\ pc' = "m_query"
  /\ UNCHANGED << src, tgt, schema, script, locals, failed_count, max_retries, log,
                  hist, runs, edits, outbound, result, written, argv, queries,
                  cleansedDocs, cleansedItems, cleanPayload, payloadResults,
                  nextPayloadId >>

\* The first statement of the run, issued with the dates as given.
MainQuery ==
  /\ pc = "m_query"
  /\ queries' = queries + 1
  /\ pc' = "m_end"
  /\ \E code \in {0, 1} : result' = << code >>
  /\ UNCHANGED << src, tgt, schema, script, locals, failed_count, max_retries, log,
                  hist, runs, edits, outbound, written, argv, conns,
                  cleansedDocs, cleansedItems, cleanPayload, payloadResults,
                  nextPayloadId >>

MainExit ==
  /\ pc = "m_end"
  /\ pc' = "idle" /\ script' = "none"
  /\ argv' = << >> /\ conns' = 0 /\ queries' = 0 /\ result' = << >>
  /\ UNCHANGED << src, tgt, schema, locals, failed_count, max_retries, log, hist,
                  runs, edits, outbound, written, cleansedDocs, cleansedItems,
                  cleanPayload, payloadResults, nextPayloadId >>

InitMain ==
  /\ srcOrders = OrderPool /\ srcLines = LinePool
  /\ schema = "exact"
  /\ tgtOrders = {} /\ tgtLines = {}
  /\ nextOrderId = 1 /\ nextDetailId = 1
  /\ ProcessIdle
  /\ SideInit

NextMain ==
  \/ \E ep \in EntryPoints, a \in DateArgs, b \in DateArgs : MainStart(ep, a, b)
  \/ MainValidate \/ MainConnect \/ MainQuery \/ MainExit

SpecMain == InitMain /\ [][NextMain]_vars

\* ------------------------------------------ comparison / reconciliation
\* The cleansed_outbound_documents row of a Source order and the
\* cleansed_outbound_items row of a Source line: the two stores seeded
\* with the same rows.
DocumentOf(o) ==
  [id |-> o.order_id, outbound_reference |-> o.do_number,
   faktur_date |-> o.faktur_date, warehouse_id |-> o.warehouse_id]

ItemOf(l) ==
  [id |-> l.order_id, document_id |-> l.order_id, product_id |-> l.product_id,
   line_id |-> l.line_id]

\* The faktur_date value a parsed date argument stands for: the day of
\* April 2025.
DayNumber(d) == d.day

\* db_a_orders: Order joined to OrderDetail, filtered on faktur_date,
\* counted by do_number.
CountA(k, lo, hi) ==
  Cardinality({ x \in srcLines \X srcOrders :
                  /\ x[1].order_id = x[2].order_id
                  /\ x[2].do_number = k
                  /\ x[2].faktur_date >= lo /\ x[2].faktur_date <= hi })

\* db_b_orders: documents joined to items, counted by outbound_reference.
CountB(k, lo, hi) ==
  Cardinality({ x \in cleansedItems \X cleansedDocs :
                  /\ x[1].document_id = x[2].id
                  /\ x[2].outbound_reference = k
                  /\ x[2].faktur_date >= lo /\ x[2].faktur_date <= hi })

\* set(db_a_dict.keys()) | set(db_b_dict.keys())
all_do_numbers(lo, hi) ==
  { o.do_number : o \in {p \in srcOrders : CountA(p.do_number, lo, hi) > 0} }
    \cup { d.outbound_reference :
             d \in {e \in cleansedDocs : CountB(e.outbound_reference, lo, hi) > 0} }

\* A difference taken without abs().
Signed(x) == x

\* abs()
Abs(x) == IF x < 0 THEN 0 - x ELSE x

discrepancy_count(k, lo, hi) == Abs(CountA(k, lo, hi) - CountB(k, lo, hi))

\* The keys the loop appends a DiscrepancyResult for.
DiscrepantKeys(lo, hi) ==
  { k \in all_do_numbers(lo, hi) : discrepancy_count(k, lo, hi) > 0 }

\* db_b_info.warehouse_id of .first(): of any document of the key, None
\* when there is none.
InfoWarehouse(k) ==
  IF \E d \in cleansedDocs : d.outbound_reference = k
  THEN { d.warehouse_id : d \in {e \in cleansedDocs : e.outbound_reference = k} }
  ELSE {NULL}

DiscrepancyResult(k, lo, hi, w) ==
  [do_number |-> k, db_a_count |-> CountA(k, lo, hi), db_b_count |-> CountB(k, lo, hi),
   discrepancy_count |-> discrepancy_count(k, lo, hi), warehouse_id |-> w]

\* The lists compare_data_by_date_range can return: the discrepant keys
\* in the iteration order of a set.
Discrepancies(lo, hi) ==
  { [i \in 1..Len(ks) |-> DiscrepancyResult(ks[i], lo, hi, w[ks[i]])] :
      ks \in AnyOrder(DiscrepantKeys(lo, hi)),
      w \in { f \in [DiscrepantKeys(lo, hi) -> {"W1", "W2", NULL}] :
                \A k \in DiscrepantKeys(lo, hi) : f[k] \in InfoWarehouse(k) } }

\* The kinds of statement a read operation issues, with a DELETE among
\* them.
StatementsWithDelete(op) == {"SELECT", "DELETE"}

\* The kinds of statement each comparison issues against the two stores.
Statements(op) ==
  CASE op = "compare" -> {"SELECT"}
    [] op = "counts"  -> {"SELECT"}
    [] op = "missing" -> {"SELECT"}

\* A table after statements of these kinds, none of them committed.
Executed(kinds, T) == IF kinds \subseteq {"SELECT"} THEN T ELSE {}

\* The stores after an operation has issued its statements.
StoresAfter(op) ==
  /\ srcOrders' = Executed(Statements(op), srcOrders)
  /\ srcLines' = Executed(Statements(op), srcLines)
  /\ tgtOrders' = Executed(Statements(op), tgtOrders)
  /\ tgtLines' = Executed(Statements(op), tgtLines)
  /\ cleansedDocs' = Executed(Statements(op), cleansedDocs)
  /\ cleansedItems' = Executed(Statements(op), cleansedItems)

\* POST /compare-data with a date range.
CompareCall(a, b) ==
  /\ pc = "idle"
  /\ script' = "compare" /\ pc' = "c_call"
  /\ argv' = << a, b >>
  /\ UNCHANGED << src, tgt, schema, locals, failed_count, max_retries, log, hist,
                  runs, edits, outbound, result, written, conns, queries,
                  cleansedDocs, cleansedItems, cleanPayload, payloadResults,
                  nextPayloadId >>

\* compare_data_by_date_range: strptime or a query raises, or the list
\* of discrepancies is returned.
CompareReturn ==
  /\ pc = "c_call" /\ script = "compare"
  /\ \E raised \in BOOLEAN :
       IF raised \/ ~strptime(argv[1]).ok \/ ~strptime(argv[2]).ok
       THEN result' = << "raised", << >> >>
       ELSE \E ds \in Discrepancies(DayNumber(strptime(argv[1])),
                                     DayNumber(strptime(argv[2]))) :
              result' = << "ok", ds >>
  /\ StoresAfter("compare")
  /\ pc' = "c_done"
  /\ UNCHANGED << nextOrderId, nextDetailId, schema, script, locals, failed_count,
                  max_retries, log, hist, runs, edits, outbound, written, argv,
                  conns, queries, cleanPayload, payloadResults, nextPayloadId >>

\* debug_copy_comparison.compare_order_counts
CompareOrderCounts ==
  /\ pc = "idle"
  /\ script' = "counts" /\ pc' = "c_done"
  /\ \E raised \in BOOLEAN :
       result' = IF raised THEN << "raised", << >> >>
                 ELSE << "ok", << Cardinality({o \in srcOrders : InRangeOrder(o)}),
                                  Cardinality({o \in tgtOrders : InRangeOrder(o)}) >> >>
  /\ StoresAfter("counts")
  /\ UNCHANGED << nextOrderId, nextDetailId, schema, locals, failed_count,
                  max_retries, log, hist, runs, edits, outbound, written, argv,
                  conns, queries, cleanPayload, payloadResults, nextPayloadId >>

\* all_orders_a: ORDER BY o.faktur_date, o.order_id
OrdersByDateId ==
  CHOOSE s \in AnyOrder({o \in srcOrders : InRangeOrder(o)}) :
    \A i, j \in 1..Len(s) :
      i < j => \/ s[i].faktur_date < s[j].faktur_date
               \/ s[i].faktur_date = s[j].faktur_date /\ s[i].order_id < s[j].order_id

existing_order_ids == { o.order_id : o \in {t \in tgtOrders : InRangeOrder(t)} }

\* The loop of find_missing_orders over rows from row i on, found being
\* missing_orders: "if len(missing_orders) >= 10: break".
RECURSIVE MissingLoop(_, _, _)
MissingLoop(rows, i, found) ==
  IF i > Len(rows) \/ Len(found) >= MissingCap THEN found
  ELSE IF rows[i].order_id \notin existing_order_ids
       THEN MissingLoop(rows, i + 1, Append(found, rows[i]))
       ELSE MissingLoop(rows, i + 1, found)

\* debug_copy_comparison.find_missing_orders: the list it returns and the
\* number its "Found N missing orders" line reports.
FindMissingOrders ==
  /\ pc = "idle"
  /\ script' = "missing" /\ pc' = "c_done"
  /\ LET missing_orders == MissingLoop(OrdersByDateId, 1, << >>)
     IN result' = << "ok", missing_orders, Len(missing_orders) >>
  /\ StoresAfter("missing")
  /\ UNCHANGED << nextOrderId, nextDetailId, schema, locals, failed_count,
                  max_retries, log, hist, runs, edits, outbound, written, argv,
                  conns, queries, cleanPayload, payloadResults, nextPayloadId >>

\* The response has been delivered, the report read.
CompareEnd ==
  /\ pc = "c_done"
  /\ pc' = "idle" /\ script' = "none"
  /\ argv' = << >> /\ result' = << >>
  /\ UNCHANGED << src, tgt, schema, locals, failed_count, max_retries, log, hist,
                  runs, edits, outbound, written, conns, queries, cleansedDocs,
                  cleansedItems, cleanPayload, payloadResults, nextPayloadId >>

\* Between two comparisons a row leaves the Target, or the Source.
RemoveTargetItem(it) ==
  /\ pc = "idle" /\ it \in cleansedItems
  /\ cleansedItems' = cleansedItems \ {it}
  /\ UNCHANGED << sync, outbound, result, written, argv, conns, queries,
                  cleansedDocs, cleanPayload, payloadResults, nextPayloadId >>

RemoveSourceLine(l) ==
  /\ pc = "idle" /\ l \in srcLines
  /\ srcLines' = srcLines \ {l}
  /\ UNCHANGED << srcOrders, tgt, schema, script, pc, locals, failed_count,
                  max_retries, log, hist, runs, edits, side >>

\* The two stores seeded with the same rows; order_main after a copy of
\* some of the orders.
InitCompare ==
  /\ srcOrders = OrderPool /\ srcLines = LinePool
  /\ schema = "exact"
  /\ \E S \in SUBSET {o \in OrderPool : InRangeOrder(o) /\ Storable(o.delivery_date)
                                        /\ o.customer_id # NULL} :
       tgtOrders = CopiedOrders(S)
  /\ tgtLines = {}
  /\ nextOrderId = 1 /\ nextDetailId = 1
  /\ ProcessIdle
  /\ outbound = OutboundPool
  /\ result = << >> /\ written = 0
  /\ argv = << >> /\ conns = 0 /\ queries = 0
  /\ cleansedDocs = { DocumentOf(o) : o \in OrderPool }
  /\ cleansedItems = { ItemOf(l) : l \in LinePool }
  /\ cleanPayload = {} /\ payloadResults = {}
  /\ nextPayloadId = 1

NextCompare ==
  \/ \E a \in DateArgs, b \in DateArgs : CompareCall(a, b)
  \/ CompareReturn
  \/ CompareOrderCounts
  \/ FindMissingOrders
  \/ CompareEnd
  \/ \E it \in cleansedItems : RemoveTargetItem(it)
  \/ \E l \in srcLines : RemoveSourceLine(l)

SpecCompare == InitCompare /\ [][NextCompare]_vars

\* ---------------------------------------------------- payload persistence
\* outbound_documents rows as the payload script reads them, each with
\* the ids of its outbound_items: two of them carry the same
\* document_reference.
DocumentPool ==
  { [id |-> 1, document_reference |-> "F1", origin_name |-> "W1", create_date |-> 1,
     items |-> {1}],
    [id |-> 2, document_reference |-> "F5", origin_name |-> "W1", create_date |-> 1,
     items |-> {2}],
    [id |-> 3, document_reference |-> "F5", origin_name |-> "W2", create_date |-> 2,
     items |-> {}] }

\* get_do_numbers_from_order_main
do_numbers ==
  { o.do_number : o \in {t \in tgtOrders : InRangeOrder(t) /\ t.do_number # NULL} }

\* docs_query: the documents of the DO numbers, ORDER BY create_date.
Documents ==
  { s \in AnyOrder({d \in outbound : d.document_reference \in do_numbers}) :
      \A i, j \in 1..Len(s) : i < j => s[i].create_date <= s[j].create_date }

\* build_json_payload: the entry built for one document.
PayloadOf(doc) ==
  [warehouse_id |-> doc.origin_name,
   outbound_reference |-> doc.document_reference,
   payload_data |-> [warehouse_id |-> doc.origin_name,
                     outbound_reference |-> doc.document_reference,
                     items |-> doc.items],
   faktur_date |-> doc.create_date]

\* INSERT INTO order_clean_payload ... ON CONFLICT (outbound_reference)
\* DO UPDATE SET payload_data, faktur_date, client_id (the SERIAL id is
\* left out of the rows).
UpsertPayload(T, p) ==
  IF \E r \in T : r.outbound_reference = p.outbound_reference
  THEN { IF r.outbound_reference = p.outbound_reference
         THEN [r EXCEPT !.payload_data = p.payload_data,
                        !.faktur_date = p.faktur_date]
         ELSE r : r \in T }
  ELSE T \cup {p}

\* create_order_clean_payload.main up to save_payloads_to_database: the
\* payloads are built; with no DO number or no document it returns.
PayloadStart ==
  /\ pc = "idle" /\ runs < MaxRuns
  /\ script' = "payload"
  /\ runs' = runs + 1
  /\ \E docs \in Documents :
       /\ batch_data' = [i \in 1..Len(docs) |-> PayloadOf(docs[i])]
       /\ pc' = IF Len(docs) = 0 THEN "done" ELSE "p_save"
  /\ copied_count' = 0
  /\ result' = << >>
  /\ written' = 0
  /\ UNCHANGED << src, tgt, schema, total_records, offset, processed_records,
                  retry_count, fetched, failed_count, max_retries, log, hist,
                  edits, outbound, argv, conns, queries, cleansedDocs,
                  cleansedItems, cleanPayload, payloadResults, nextPayloadId >>

\* A loop that counts the payload before its statement has run.
PayloadSaveCountsFirst ==
  /\ pc = "p_save" /\ script = "payload" /\ batch_data # << >>
  /\ \E raised \in BOOLEAN :
       IF raised
       THEN UNCHANGED << cleanPayload, written >>
       ELSE /\ cleanPayload' = UpsertPayload(cleanPayload, Head(batch_data))
            /\ written' = written + 1
  /\ copied_count' = copied_count + 1
  /\ batch_data' = Tail(batch_data)
  /\ pc' = IF Tail(batch_data) = << >> THEN "done" ELSE "p_save"
  /\ result' = IF Tail(batch_data) = << >> THEN << copied_count' >> ELSE result
  /\ UNCHANGED << src, tgt, schema, script, total_records, offset,
                  processed_records, retry_count, fetched, failed_count,
                  max_retries, log, hist, runs, edits, outbound, argv,
                  conns, queries, cleansedDocs, cleansedItems, payloadResults,
                  nextPayloadId >>

\* One turn of the loop of save_payloads_to_database: the statement and
\* its commit (written counts the commits), or an exception, a rollback
\* and "continue".
PayloadSave ==
  /\ pc = "p_save" /\ script = "payload" /\ batch_data # << >>
  /\ \E raised \in BOOLEAN :
       IF raised
       THEN UNCHANGED << cleanPayload, copied_count, written >>
       ELSE /\ cleanPayload' = UpsertPayload(cleanPayload, Head(batch_data))
            /\ copied_count' = copied_count + 1
            /\ written' = written + 1
  /\ batch_data' = Tail(batch_data)
  /\ pc' = IF Tail(batch_data) = << >> THEN "done" ELSE "p_save"
  /\ result' = IF Tail(batch_data) = << >> THEN << copied_count' >> ELSE result
  /\ UNCHANGED << src, tgt, schema, script, total_records, offset,
                  processed_records, retry_count, fetched, failed_count,
                  max_retries, log, hist, runs, edits, outbound, argv,
                  conns, queries, cleansedDocs, cleansedItems, payloadResults,
                  nextPayloadId >>

\* create_payload_from_db_b: the documents .first() may return for the
\* key, each with its items.
PayloadsFromDbB(k) ==
  { [warehouse_id |-> d.warehouse_id, outbound_reference |-> d.outbound_reference,
     items |-> { it.id : it \in {x \in cleansedItems : x.document_id = d.id} }] :
      d \in {e \in cleansedDocs : e.outbound_reference = k} }

\* The counts of create_payload: the lines of the key on each side.
LinesInA(k) ==
  Cardinality({ x \in srcLines \X srcOrders :
                  x[1].order_id = x[2].order_id /\ x[2].do_number = k })

ItemsInB(k) ==
  Cardinality({ x \in cleansedItems \X cleansedDocs :
                  x[1].document_id = x[2].id /\ x[2].outbound_reference = k })

\* save_payload_result: db_b.add of a new CleaningPayloadResults and
\* commit.
SavePayloadResult(T, nid, k, payload_data) ==
  T \cup { [id |-> nid, do_number |-> k, warehouse_id |-> payload_data.warehouse_id,
            payload_data |-> payload_data, status |-> "created",
            db_a_count |-> LinesInA(k), db_b_count |-> ItemsInB(k),
            discrepancy_count |-> Abs(LinesInA(k) - ItemsInB(k))] }

\* POST /create-payload/{do_number}: no document of the key is the 404,
\* an exception in the save is rolled back.
CreatePayload(k) ==
  /\ pc = "idle" /\ runs < MaxRuns
  /\ runs' = runs + 1
  /\ IF PayloadsFromDbB(k) = {}
     THEN UNCHANGED << payloadResults, nextPayloadId >>
     ELSE \E payload_data \in PayloadsFromDbB(k), raised \in BOOLEAN :
            IF raised
            THEN UNCHANGED << payloadResults, nextPayloadId >>
            ELSE /\ payloadResults' = SavePayloadResult(payloadResults, nextPayloadId,
                                                        k, payload_data)
                 /\ nextPayloadId' = nextPayloadId + 1
  /\ UNCHANGED << src, tgt, schema, script, pc, locals, failed_count, max_retries,
                  log, hist, edits, outbound, result, written, argv, conns,
                  queries, cleansedDocs, cleansedItems, cleanPayload >>

\* Between two runs a document of the Target gets another origin.
EditDocument(d, w) ==
  /\ pc = "idle" /\ edits < MaxEdits
  /\ d \in outbound /\ w # d.origin_name
  /\ outbound' = (outbound \ {d}) \cup {[d EXCEPT !.origin_name = w]}
  /\ edits' = edits + 1
  /\ UNCHANGED << src, tgt, schema, script, pc, locals, failed_count, max_retries,
                  log, hist, runs, result, written, argv, conns, queries,
                  cleansedDocs, cleansedItems, cleanPayload, payloadResults,
                  nextPayloadId >>

InitPayload ==
  /\ srcOrders = OrderPool /\ srcLines = LinePool
  /\ schema = "exact"
  /\ \E S \in SUBSET {o \in OrderPool : InRangeOrder(o) /\ Storable(o.delivery_date)
                                        /\ o.customer_id # NULL} :
       tgtOrders = CopiedOrders(S)
  /\ tgtLines = {}
  /\ nextOrderId = 1 /\ nextDetailId = 1
  /\ ProcessIdle
  /\ outbound \in SUBSET DocumentPool
  /\ result = << >> /\ written = 0
  /\ argv = << >> /\ conns = 0 /\ queries = 0
  /\ cleansedDocs = { DocumentOf(o) : o \in OrderPool }
  /\ cleansedItems = { ItemOf(l) : l \in LinePool }
  /\ cleanPayload = {} /\ payloadResults = {}
  /\ nextPayloadId = 1

NextPayload ==
  \/ PayloadStart
  \/ PayloadSave
  \/ \E k \in {"F1", "F5", "F9"} : CreatePayload(k)
  \/ \E d \in outbound, w \in {"W1", "W2"} : EditDocument(d, w)
  \/ Finish

SpecPayload == InitPayload /\ [][NextPayload]_vars


\* ------------------------------------------------------ payload assembly
\* A NULL of a numeric or date column, and a value n of one.
None == << >>
Some(n) == << n >>

\* outbound_conversions / cleansed_outbound_conversions rows: one filled
\* in, one with every column NULL.
ConversionPool ==
  { [uom |-> "CTN", numerator |-> Some(12), denominator |-> Some(1)],
    [uom |-> NULL, numerator |-> None, denominator |-> None] }

\* The item rows a document can have, each with the conversion rows of
\* the item: one filled in, one with NULL (or zero) columns and no
\* conversion.
ItemVariants ==
  { [id |-> 1, document_id |-> 1, line_id |-> "L1", uom |-> "CTN", qty |-> Some(2),
     conversions |-> cs] :
      cs \in {<< >>} \cup { << c >> : c \in ConversionPool } }
    \cup
  { [id |-> 2, document_id |-> 1, line_id |-> NULL, uom |-> NULL, qty |-> q,
     conversions |-> << >>] : q \in {None, Some(0)} }

ItemSets == { I \in SUBSET ItemVariants : \A x, y \in I : x.id = y.id => x = y }

\* Python truth of a column value: None, "" and 0 are false.
TruthyText(x) == x # NULL /\ x # ""
TruthyNumber(x) == x # None /\ x # Some(0)

\* str(x) if x else ""
StrOrEmpty(x) == IF TruthyText(x) THEN x ELSE ""
\* float(x) if x else 0
FloatOrZero(x) == IF TruthyNumber(x) THEN x ELSE Some(0)
\* float(x) if x else 1
FloatOrOne(x) == IF TruthyNumber(x) THEN x ELSE Some(1)

\* strftime('%Y-%m-%d') of a day of April 2025.
DateText(d) == IF d = 1 THEN "2025-04-01" ELSE "2025-04-02"
\* x.strftime('%Y-%m-%d') if x else ""
DateTextOrEmpty(x) == IF x # None THEN DateText(x[1]) ELSE ""

\* A conversion array that is never empty: one default entry stands in.
DefaultConversion(convs) ==
  IF convs = << >>
  THEN << [uom |-> "", numerator |-> Some(1), denominator |-> Some(1)] >>
  ELSE [i \in 1..Len(convs) |->
          [uom |-> convs[i].uom, numerator |-> FloatOrOne(convs[i].numerator),
           denominator |-> FloatOrOne(convs[i].denominator)]]

\* build_json_payload: conversion_array of an item.
conversion_array(convs) ==
  [i \in 1..Len(convs) |->
     [uom |-> convs[i].uom, numerator |-> FloatOrOne(convs[i].numerator),
      denominator |-> FloatOrOne(convs[i].denominator)]]

\* build_json_payload: item_obj.
item_obj(item) ==
  [line_id |-> StrOrEmpty(item.line_id), qty |-> FloatOrZero(item.qty),
   uom |-> StrOrEmpty(item.uom), conversion |-> conversion_array(item.conversions)]

\* items_query: ORDER BY oi.outbound_document_id, oi.line_id (NULLs last).
ItemsByLine(S) ==
  { s \in AnyOrder(S) :
      \A i, j \in 1..Len(s) : i < j => ~(s[i].line_id = NULL /\ s[j].line_id # NULL) }

\* build_json_payload: the payload object of a document with its items.
JsonPayload(doc, doc_items) ==
  [warehouse_id |-> StrOrEmpty(doc.origin_name),
   outbound_reference |-> StrOrEmpty(doc.document_reference),
   faktur_date |-> DateTextOrEmpty(doc.create_date),
   items |-> [i \in 1..Len(doc_items) |-> item_obj(doc_items[i])]]

\* create_payload_from_db_b: conversion_list and item_payload.
conversion_list(convs) ==
  [i \in 1..Len(convs) |->
     [uom |-> convs[i].uom, numerator |-> convs[i].numerator,
      denominator |-> convs[i].denominator]]

item_payload(item) ==
  [line_id |-> item.line_id, qty |-> item.qty, uom |-> item.uom,
   conversion |-> conversion_list(item.conversions)]

\* create_payload_from_db_b: the payload of a document with its items.
PayloadFromDbB(document, items) ==
  [warehouse_id |-> document.warehouse_id,
   outbound_reference |-> document.outbound_reference,
   faktur_date |-> DateTextOrEmpty(document.faktur_date),
   items |-> [i \in 1..Len(items) |-> item_payload(items[i])]]

\* build_json_payload over the documents and items fetched.
AssembleScript ==
  /\ pc = "idle"
  /\ script' = "build_json_payload" /\ pc' = "a_done"
  /\ \E doc \in outbound :
       \E doc_items \in ItemsByLine(doc.items) :
         result' = << "ok", JsonPayload(doc, doc_items) >>
  /\ UNCHANGED << src, tgt, schema, locals, failed_count, max_retries, log, hist,
                  runs, edits, outbound, written, argv, conns, queries,
                  cleansedDocs, cleansedItems, cleanPayload, payloadResults,
                  nextPayloadId >>

\* create_payload_from_db_b(do_number): ValueError when no document has
\* the reference.
AssembleService(k) ==
  /\ pc = "idle"
  /\ script' = "create_payload_from_db_b" /\ pc' = "a_done"
  /\ IF \E d \in cleansedDocs : d.outbound_reference = k
     THEN \E document \in {d \in cleansedDocs : d.outbound_reference = k} :
            \E items \in AnyOrder({x \in cleansedItems : x.document_id = document.id}) :
              result' = << "ok", PayloadFromDbB(document, items) >>
     ELSE result' = << "raised", << >> >>
  /\ UNCHANGED << src, tgt, schema, locals, failed_count, max_retries, log, hist,
                  runs, edits, outbound, written, argv, conns, queries,
                  cleansedDocs, cleansedItems, cleanPayload, payloadResults,
                  nextPayloadId >>

\* The payload has been handed on.
AssembleEnd ==
  /\ pc = "a_done"
  /\ pc' = "idle" /\ script' = "none"
  /\ result' = << >>
  /\ UNCHANGED << src, tgt, schema, locals, failed_count, max_retries, log, hist,
                  runs, edits, outbound, written, argv, conns, queries,
                  cleansedDocs, cleansedItems, cleanPayload, payloadResults,
                  nextPayloadId >>

\* One document, held alike by the outbound and the cleansed tables, with
\* any of the item rows and nullable columns NULL or not.
InitAssemble ==
  /\ srcOrders = OrderPool /\ srcLines = LinePool
  /\ schema = "exact"
  /\ tgtOrders = {} /\ tgtLines = {}
  /\ nextOrderId = 1 /\ nextDetailId = 1
  /\ ProcessIdle
  /\ \E w \in {NULL, "W1"}, d \in {None, Some(1)}, I \in ItemSets :
       /\ outbound = { [id |-> 1, document_reference |-> "F1", origin_name |-> w,
                        create_date |-> d, items |-> I] }
       /\ cleansedDocs = { [id |-> 1, outbound_reference |-> "F1", warehouse_id |-> w,
                            faktur_date |-> d] }
       /\ cleansedItems = I
  /\ result = << >> /\ written = 0
  /\ argv = << >> /\ conns = 0 /\ queries = 0
  /\ cleanPayload = {} /\ payloadResults = {}
  /\ nextPayloadId = 1

NextAssemble ==
  \/ AssembleScript
  \/ \E k \in {"F1", "F9"} : AssembleService(k)
  \/ AssembleEnd

SpecAssemble == InitAssemble /\ [][NextAssemble]_vars


\* --------------------------------------------------- quantity transform
\* The uom values of outbound_items: NULL, empty, and units in both
\* cases.
Uoms == {NULL, "", "PCS", "pcs", "CTN", "ctn", "BOX"}

Qtys == {0, 2}

\* The conversion found for an item: none, or the numerator and
\* denominator columns of the first outbound_conversions row.
Conversions ==
  { None,
    Some([numerator |-> Some(12), denominator |-> Some(1)]),
    Some([numerator |-> Some(6), denominator |-> Some(0)]),
    Some([numerator |-> None, denominator |-> None]) }

\* str.upper()
Upper(u) ==
  CASE u = "pcs" -> "PCS"
    [] u = "ctn" -> "CTN"
    [] OTHER -> u

\* qty * numerator: a TypeError when the numerator is None.
TimesRaises(numerator) == numerator = None
Times(qty, numerator) == Some(qty * numerator[1])

Returned(qf, pcs, ctn) ==
  << "ok", [quantity_faktur |-> qf, total_pcs |-> pcs, total_ctn |-> ctn] >>

\* copy_order_details.calculate_quantities: an exception is logged and
\* (qty, qty, None) returned.
DetailsQuantities(qty, uom, conversion_data) ==
  IF TruthyText(uom) /\ Upper(uom) # "PCS" /\ conversion_data # None
  THEN IF TimesRaises(conversion_data[1].numerator)
       THEN Returned(Some(qty), Some(qty), None)
       ELSE Returned(Times(qty, conversion_data[1].numerator),
                     Times(qty, conversion_data[1].numerator),
                     IF Upper(uom) = "CTN" THEN Some(qty) ELSE None)
  ELSE Returned(Some(qty), Some(qty),
                IF TruthyText(uom) /\ Upper(uom) = "CTN" THEN Some(qty) ELSE None)

\* copy_order_details_optimized.calculate_quantities_optimized, all three
\* results.
OptimizedQuantities(qty, uom, numerator, denominator) ==
  IF TruthyText(uom) /\ Upper(uom) # "PCS"
       /\ TruthyNumber(numerator) /\ TruthyNumber(denominator)
  THEN Returned(Times(qty, numerator), Times(qty, numerator),
                IF Upper(uom) = "CTN" THEN Some(qty) ELSE Some(0))
  ELSE Returned(Some(qty), Some(qty),
                IF TruthyText(uom) /\ Upper(uom) = "CTN" THEN Some(qty) ELSE Some(0))

\* fill_order_detail_main.calculate_quantities, all three results:
\* uom.upper() of None and qty * None raise, and the handler re-raises.
FillQuantities(qty, uom, conversion_data) ==
  IF uom = NULL THEN << "raised", << >> >>
  ELSE IF Upper(uom) # "PCS" /\ conversion_data # None
       THEN IF TimesRaises(conversion_data[1].numerator) THEN << "raised", << >> >>
            ELSE Returned(Times(qty, conversion_data[1].numerator),
                          Times(qty, conversion_data[1].numerator),
                          IF Upper(uom) = "CTN" THEN Some(qty) ELSE None)
       ELSE Returned(Some(qty), Some(qty),
                     IF Upper(uom) = "CTN" THEN Some(qty) ELSE None)

\* The columns the optimized query hands over for a conversion.
NumeratorOf(conversion) == IF conversion = None THEN None ELSE conversion[1].numerator
DenominatorOf(conversion) == IF conversion = None THEN None ELSE conversion[1].denominator

\* One of the three transforms is called on the item in hand.
CallQuantities(f) ==
  /\ pc = "idle"
  /\ script' = f /\ pc' = "q_done"
  /\ result' =
       CASE f = "details" -> DetailsQuantities(argv[1], argv[2], argv[3])
         [] f = "optimized" ->
              OptimizedQuantities(argv[1], argv[2], NumeratorOf(argv[3]),
                                  DenominatorOf(argv[3]))
         [] f = "fill" -> FillQuantities(argv[1], argv[2], argv[3])
  /\ UNCHANGED << src, tgt, schema, locals, failed_count, max_retries, log, hist,
                  runs, edits, outbound, written, argv, conns, queries,
                  cleansedDocs, cleansedItems, cleanPayload, payloadResults,
                  nextPayloadId >>

\* The caller has taken the result.
QuantitiesEnd ==
  /\ pc = "q_done"
  /\ pc' = "idle" /\ script' = "none"
  /\ result' = << >>
  /\ UNCHANGED << src, tgt, schema, locals, failed_count, max_retries, log, hist,
                  runs, edits, outbound, written, argv, conns, queries,
                  cleansedDocs, cleansedItems, cleanPayload, payloadResults,
                  nextPayloadId >>

\* An item with any quantity, unit and conversion.
InitQuantity ==
  /\ srcOrders = OrderPool /\ srcLines = LinePool
  /\ schema = "exact"
  /\ tgtOrders = {} /\ tgtLines = {}
  /\ nextOrderId = 1 /\ nextDetailId = 1
  /\ ProcessIdle
  /\ outbound = OutboundPool
  /\ result = << >> /\ written = 0
  /\ argv \in { << q, u, c >> : q \in Qtys, u \in Uoms, c \in Conversions }
  /\ conns = 0 /\ queries = 0
  /\ cleansedDocs = {} /\ cleansedItems = {}
  /\ cleanPayload = {} /\ payloadResults = {}
  /\ nextPayloadId = 1

NextQuantity ==
  \/ \E f \in {"details", "optimized", "fill"} : CallQuantities(f)
  \/ QuantitiesEnd

SpecQuantity == InitQuantity /\ [][NextQuantity]_vars


\* ------------------------------------- order details from outbound items
\* A row as the outbound path inserts it: no operational quantity given.
DetailRow(r, id) ==
  [order_detail_id |-> id, order_id |-> r.order_id, product_id |-> r.product_id,
   line_id |-> r.line_id, quantity_faktur |-> r.quantity_faktur,
   quantity_wms |-> None, quantity_delivery |-> None, quantity_loading |-> None,
   quantity_unloading |-> None]

\* copy_order_details.insert_order_details: the SET list names every
\* column of the VALUES list, the operational quantities (given as None)
\* among them.
SetEveryColumn(t, r) ==
  [t EXCEPT !.quantity_faktur = r.quantity_faktur,
            !.quantity_wms = None, !.quantity_delivery = None,
            !.quantity_loading = None, !.quantity_unloading = None]

\* copy_order_details_optimized.insert_order_details_batch: the SET list
\* names the supplied columns only.
SetSuppliedColumns(t, r) == [t EXCEPT !.quantity_faktur = r.quantity_faktur]

SetList(f, t, r) ==
  IF f = "insert_order_details" THEN SetEveryColumn(t, r) ELSE SetSuppliedColumns(t, r)

\* INSERT ... ON CONFLICT (order_id, product_id, line_id) DO UPDATE SET of
\* function f for one row.
UpsertDetail(f, T, nid, r) ==
  LET hit == LineConflict(T, r)
  IN IF hit = {} THEN Done(T \cup {DetailRow(r, nid)}, nid + 1)
     ELSE Done((T \ hit) \cup {SetList(f, t, r) : t \in hit}, nid)

RECURSIVE UpsertDetails(_, _, _, _)
UpsertDetails(f, T, nid, rows) ==
  IF rows = << >> THEN Done(T, nid)
  ELSE LET one == UpsertDetail(f, T, nid, Head(rows))
       IN UpsertDetails(f, one.tbl, one.next, Tail(rows))

\* insert_order_details: every row executed and one commit at the end,
\* or the statement of row k raised: the transaction is aborted, every
\* later statement raises as well and is counted as skipped, and the
\* commit of the aborted transaction keeps nothing.
DetailsInsert ==
  /\ pc = "idle" /\ runs < MaxRuns
  /\ runs' = runs + 1
  /\ script' = "insert_order_details" /\ pc' = "done"
  /\ \E rows \in OrderedByDateId(OptimizedRows) :
     \E k \in 0..Len(OrderDetailsData(rows)) :
       LET data == OrderDetailsData(rows)
           res == UpsertDetails("insert_order_details", tgtLines, nextDetailId, data)
       IN IF k > 0
          THEN /\ UNCHANGED << tgtLines, nextDetailId >>
               /\ result' = << k - 1, Len(data) - k + 1 >>
          ELSE /\ tgtLines' = res.tbl /\ nextDetailId' = res.next
               /\ result' = << Len(data), 0 >>
  /\ UNCHANGED << src, tgtOrders, nextOrderId, schema, locals, failed_count,
                  max_retries, log, hist, edits, outbound, written, argv, conns,
                  queries, cleansedDocs, cleansedItems, cleanPayload,
                  payloadResults, nextPayloadId >>

\* insert_order_details_batch: the batches up to the first that raises
\* are committed.
BatchInsert ==
  /\ pc = "idle" /\ runs < MaxRuns
  /\ runs' = runs + 1
  /\ script' = "insert_order_details_batch" /\ pc' = "done"
  /\ \E rows \in OrderedByDateId(OptimizedRows) :
       LET data == OrderDetailsData(rows)
           batches == (Len(data) + InsertBatch - 1) \div InsertBatch
       IN \E k \in 0..batches :
            LET done == SubSeq(data, 1, Min(k * InsertBatch, Len(data)))
                res == UpsertDetails("insert_order_details_batch", tgtLines,
                                     nextDetailId, done)
            IN /\ tgtLines' = res.tbl /\ nextDetailId' = res.next
               /\ result' = IF k = batches THEN << Len(data), 0 >> ELSE << 0, 0 >>
  /\ UNCHANGED << src, tgtOrders, nextOrderId, schema, locals, failed_count,
                  max_retries, log, hist, edits, outbound, written, argv, conns,
                  queries, cleansedDocs, cleansedItems, cleanPayload,
                  payloadResults, nextPayloadId >>

\* Another system records the operational quantities of a line.
RecordOperational(l) ==
  /\ pc = "idle" /\ edits < MaxEdits
  /\ l \in tgtLines
  /\ edits' = edits + 1
  /\ tgtLines' = (tgtLines \ {l}) \cup
                   {[l EXCEPT !.quantity_wms = Some(5), !.quantity_delivery = Some(5),
                              !.quantity_loading = Some(5),
                              !.quantity_unloading = Some(5)]}
  /\ UNCHANGED << src, tgtOrders, nextOrderId, nextDetailId, schema, script, pc,
                  locals, failed_count, max_retries, log, hist, runs, side >>

InitDetails ==
  /\ srcOrders = OrderPool /\ srcLines = LinePool
  /\ schema = "exact"
  /\ \E S \in SUBSET {o \in OrderPool : InRangeOrder(o) /\ Storable(o.delivery_date)
                                        /\ o.customer_id # NULL} :
       tgtOrders = CopiedOrders(S)
  /\ tgtLines = {}
  /\ nextOrderId = 1 /\ nextDetailId = 1
  /\ ProcessIdle
  /\ outbound \in SUBSET OptimizedPool
  /\ result = << >> /\ written = 0
  /\ argv = << >> /\ conns = 0 /\ queries = 0
  /\ cleansedDocs = {} /\ cleansedItems = {}
  /\ cleanPayload = {} /\ payloadResults = {}
  /\ nextPayloadId = 1

NextDetails ==
  \/ DetailsInsert
  \/ BatchInsert
  \/ \E l \in tgtLines : RecordOperational(l)
  \/ Finish

SpecDetails == InitDetails /\ [][NextDetails]_vars


\* --------------------------------------------------- repairs of the data
\* UPDATE "order" SET delivery_date = NULL WHERE warehouse_id = w AND
\* (delivery_date < '1900-01-01' OR delivery_date > '2100-12-31'), on
\* Database A.
InvalidDatesFixed(O, w) ==
  { IF o.warehouse_id = w /\ ~Storable(o.delivery_date)
    THEN [o EXCEPT !.delivery_date = NullDate] ELSE o : o \in O }

\* fix_invalid_dates.py <warehouse_id>: the updates and one commit, or an
\* exception and the rollback.
FixInvalidDates(w) ==
  /\ pc = "idle" /\ runs < MaxRuns
  /\ \E raised \in BOOLEAN :
       srcOrders' = IF raised THEN srcOrders ELSE InvalidDatesFixed(srcOrders, w)
  /\ runs' = runs + 1
  /\ UNCHANGED << srcLines, tgt, schema, script, pc, locals, failed_count,
                  max_retries, log, hist, edits, side >>

\* SELECT order_id FROM "order" WHERE warehouse_id = w AND faktur_id IS NOT
\* NULL AND customer_id IS NOT NULL ORDER BY faktur_date LIMIT 1 OFFSET n.
RecordsAtOffset(O, w, n) ==
  UNION { Range(Page(s, 1, n)) :
            s \in OrderedBy({o \in O : /\ o.warehouse_id = w
                                       /\ o.faktur_id # NULL
                                       /\ o.customer_id # NULL}) }

\* debug_batch_30_robust.fix_problematic_record: the record at the
\* offset gets delivery_date = NULL on Database A; False when there is no
\* record or the update raises.
FixProblematicRecord(w, n) ==
  /\ pc = "idle" /\ runs < MaxRuns
  /\ IF RecordsAtOffset(srcOrders, w, n) = {}
     THEN UNCHANGED srcOrders
     ELSE \E o \in RecordsAtOffset(srcOrders, w, n), raised \in BOOLEAN :
            srcOrders' = IF raised THEN srcOrders
                         ELSE (srcOrders \ {o}) \cup {[o EXCEPT !.delivery_date = NullDate]}
  /\ runs' = runs + 1
  /\ UNCHANGED << srcLines, tgt, schema, script, pc, locals, failed_count,
                  max_retries, log, hist, edits, side >>

\* Any Source, nothing copied yet.
InitRepair ==
  /\ srcOrders \in SUBSET OrderPool
  /\ srcLines = {l \in LinePool : ParentInSource(srcOrders, l)}
  /\ schema = "exact"
  /\ tgtOrders = {} /\ tgtLines = {}
  /\ nextOrderId = 1 /\ nextDetailId = 1
  /\ ProcessIdle
  /\ SideInit

NextRepair ==
  \/ \E w \in {"W1", "W2"} : FixInvalidDates(w)
  \/ \E w \in {"W1", "W2"}, n \in 0..1 : FixProblematicRecord(w, n)

SpecRepair == InitRepair /\ [][NextRepair]_vars


\* ----------------------------------------- two invocations side by side
\* copy_order_data_upsert.py started once for each warehouse over the
\* same dates; each invocation has its own connections and locals, held
\* here per warehouse.  Every commit is one step.
Invocations == {"W1", "W2"}

InPartition(w, o) == InDates(o) /\ o.warehouse_id = w

\* The order page query of the invocation for warehouse w.
OrderPagesOf(w, off) ==
  { Page(s, BatchSize, off) : s \in OrderedBy({o \in srcOrders : InPartition(w, o)}) }

\* The line count query of the invocation for warehouse w.
LineCountOf(w) ==
  Cardinality({ x \in srcLines \X srcOrders :
                  x[1].order_id = x[2].order_id /\ InPartition(w, x[2]) })

\* SELECT COUNT(*) FROM "order" ... AND warehouse_id = w
ConcCountOrders(p) ==
  /\ pc[p] = "o_count"
  /\ total_records' = [total_records EXCEPT
                         ![p] = Cardinality({o \in srcOrders : InPartition(p, o)})]
  /\ offset' = [offset EXCEPT ![p] = 0]
  /\ pc' = [pc EXCEPT ![p] = IF total_records'[p] = 0 THEN "d_count" ELSE "o_loop"]
  /\ UNCHANGED << src, tgt, schema, script, batch_data, processed_records,
                  retry_count, copied_count, fetched, failed_count, max_retries,
                  log, hist, runs, edits, side >>

\* "while offset < total_records": the page of the invocation.
ConcFetchOrders(p) ==
  /\ pc[p] = "o_loop"
  /\ IF offset[p] >= total_records[p]
     THEN /\ pc' = [pc EXCEPT ![p] = "d_count"]
          /\ batch_data' = [batch_data EXCEPT ![p] = << >>]
     ELSE \E page \in OrderPagesOf(p, offset[p]) :
            /\ batch_data' = [batch_data EXCEPT ![p] = page]
            /\ pc' = [pc EXCEPT ![p] = IF page = << >> THEN "d_count" ELSE "o_write"]
  /\ UNCHANGED << src, tgt, schema, script, total_records, offset,
                  processed_records, retry_count, copied_count, fetched,
                  failed_count, max_retries, log, hist, runs, edits, side >>

\* executemany and commit of the page; a page the Target rejects is
\* rolled back on every attempt and the invocation exits.
ConcWriteOrders(p) ==
  /\ pc[p] = "o_write"
  /\ LET res == ExecOrders("upsert", tgtOrders, nextOrderId, batch_data[p])
     IN IF res.ok
        THEN /\ tgtOrders' = res.tbl /\ nextOrderId' = res.next
             /\ offset' = [offset EXCEPT ![p] = offset[p] + BatchSize]
             /\ pc' = [pc EXCEPT ![p] = "o_loop"]
        ELSE /\ UNCHANGED << tgtOrders, nextOrderId, offset >>
             /\ pc' = [pc EXCEPT ![p] = OrdersRaised]
  /\ UNCHANGED << src, tgtLines, nextDetailId, schema, script, total_records,
                  batch_data, processed_records, retry_count, copied_count,
                  fetched, failed_count, max_retries, log, hist, runs, edits, side >>

\* SELECT COUNT(*) FROM order_detail od JOIN "order" o ... AND
\* o.warehouse_id = w
ConcCountLines(p) ==
  /\ pc[p] = "d_count"
  /\ total_records' = [total_records EXCEPT ![p] = LineCountOf(p)]
  /\ offset' = [offset EXCEPT ![p] = 0]
  /\ pc' = [pc EXCEPT ![p] = IF total_records'[p] = 0 THEN "done" ELSE "d_loop"]
  /\ UNCHANGED << src, tgt, schema, script, batch_data, processed_records,
                  retry_count, copied_count, fetched, failed_count, max_retries,
                  log, hist, runs, edits, side >>

\* The line page query: the same for every invocation, it names no
\* warehouse.
ConcFetchLines(p) ==
  /\ pc[p] = "d_loop"
  /\ IF offset[p] >= total_records[p]
     THEN /\ pc' = [pc EXCEPT ![p] = "done"]
          /\ batch_data' = [batch_data EXCEPT ![p] = << >>]
     ELSE \E page \in LinePages("upsert", tgtOrders, offset[p]) :
            /\ batch_data' = [batch_data EXCEPT ![p] = page]
            /\ pc' = [pc EXCEPT ![p] = IF page = << >> THEN "done" ELSE "d_write"]
  /\ UNCHANGED << src, tgt, schema, script, total_records, offset,
                  processed_records, retry_count, copied_count, fetched,
                  failed_count, max_retries, log, hist, runs, edits, side >>

ConcWriteLines(p) ==
  /\ pc[p] = "d_write"
  /\ LET res == ExecLines("upsert", tgtOrders, tgtLines, nextDetailId, batch_data[p])
     IN IF res.ok
        THEN /\ tgtLines' = res.tbl /\ nextDetailId' = res.next
             /\ offset' = [offset EXCEPT ![p] = offset[p] + BatchSize]
             /\ pc' = [pc EXCEPT ![p] = "d_loop"]
        ELSE /\ UNCHANGED << tgtLines, nextDetailId, offset >>
             /\ pc' = [pc EXCEPT ![p] = LinesRaised]
  /\ UNCHANGED << src, tgtOrders, nextOrderId, schema, script, total_records,
                  batch_data, processed_records, retry_count, copied_count,
                  fetched, failed_count, max_retries, log, hist, runs, edits, side >>

\* Both invocations started on an empty Target.
InitConcurrent ==
  /\ srcOrders \in {S \in SUBSET OrderPool : \A o \in OrderPool : o.warehouse_id # Warehouse => o \in S}
  /\ srcLines = {l \in LinePool : ParentInSource(srcOrders, l)}
  /\ schema = "faktur"
  /\ tgtOrders = {} /\ tgtLines = {}
  /\ nextOrderId = 1 /\ nextDetailId = 1
  /\ script = "upsert"
  /\ pc = [p \in Invocations |-> "o_count"]
  /\ total_records = [p \in Invocations |-> 0]
  /\ offset = [p \in Invocations |-> 0]
  /\ batch_data = [p \in Invocations |-> << >>]
  /\ processed_records = << >>
  /\ retry_count = 0 /\ copied_count = 0 /\ failed_count = 0
  /\ max_retries = MaxRetriesBound
  /\ log = {} /\ fetched = << >>
  /\ attempts = 0 /\ ordersDone = FALSE /\ orderSyncs = 0
  /\ runs = 0 /\ edits = 0
  /\ SideInit

NextConcurrent ==
  \E p \in Invocations :
    \/ ConcCountOrders(p) \/ ConcFetchOrders(p) \/ ConcWriteOrders(p)
    \/ ConcCountLines(p) \/ ConcFetchLines(p) \/ ConcWriteLines(p)

SpecConcurrent == InitConcurrent /\ [][NextConcurrent]_vars


\* ------------------------------------------------------ April clean-up
\* order_main rows the clean-up may find: April and May orders of the
\* warehouse and of another one.
MayDate == 3
CleanPool ==
  { [order_id |-> 1, do_number |-> "F1", faktur_id |-> "F1", faktur_date |-> AprilStart,
     customer_id |-> "C1", warehouse_id |-> "W1", status |-> "new", created_by |-> "u1",
     delivery_date |-> GoodDate],
    [order_id |-> 2, do_number |-> "F2", faktur_id |-> "F2", faktur_date |-> AprilEnd,
     customer_id |-> "C1", warehouse_id |-> "W1", status |-> "new", created_by |-> "u1",
     delivery_date |-> GoodDate],
    [order_id |-> 3, do_number |-> "F3", faktur_id |-> "F3", faktur_date |-> MayDate,
     customer_id |-> "C1", warehouse_id |-> "W1", status |-> "new", created_by |-> "u1",
     delivery_date |-> GoodDate],
    [order_id |-> 4, do_number |-> "F4", faktur_id |-> "F4", faktur_date |-> AprilStart,
     customer_id |-> "C1", warehouse_id |-> "W2", status |-> "new", created_by |-> "u1",
     delivery_date |-> GoodDate],
    [order_id |-> 5, do_number |-> "F5", faktur_id |-> "F5", faktur_date |-> MayDate,
     customer_id |-> "C1", warehouse_id |-> "W2", status |-> "new", created_by |-> "u1",
     delivery_date |-> GoodDate] }

\* One order_detail_main row under each order of O.
LinesUnder(O) ==
  { [order_detail_id |-> o.order_id, order_id |-> o.order_id, product_id |-> "P1",
     line_id |-> "L1", quantity_faktur |-> 1] : o \in O }

\* A Target holding any of the orders, each with its line, and no run in
\* hand.
InitClean ==
  /\ srcOrders = {} /\ srcLines = {}
  /\ schema = "exact"
  /\ tgtOrders \in SUBSET CleanPool
  /\ tgtLines \in SUBSET LinesUnder(tgtOrders)
  /\ nextOrderId = 6 /\ nextDetailId = 6
  /\ ProcessIdle
  /\ SideInit

\* clean_april_data.py run by hand, or copy_april_fixed.py started and
\* stopped after its Step 1.
NextClean ==
  \/ \E mr \in {0} : StartRun("april", mr)
  \/ CleanStep
  \/ CleanAprilData
  \/ Cancel

SpecClean == InitClean /\ [][NextClean]_vars

\* A step of the running process: once started, the interpreter goes on
\* executing the script until main() has returned or exited.
ProcessStep ==
  \/ CleanStep
  \/ CountOrders \/ FetchOrders \/ WriteOrders \/ WriteOrdersFail \/ NoAttemptOrders
  \/ CountLines \/ FetchLines \/ WriteLines \/ WriteLinesFail
  \/ FillOrders \/ FillInsert
  \/ Finish

\* The same machine with a process that is not left standing.
LiveSpec == Spec /\ WF_vars(ProcessStep)

\* ------------------------------------------------------------- C1
\* A batch executed a second time on the table the first execution left.
OrdersTwice(sc, T, nid, rows) ==
  LET once == ExecOrders(sc, T, nid, rows)
  IN ExecOrders(sc, once.tbl, once.next, rows)

LinesTwice(sc, O, T, nid, rows) ==
  LET once == ExecLines(sc, O, T, nid, rows)
  IN ExecLines(sc, O, once.tbl, once.next, rows)

\* C1: the upsert script's statements are idempotent: whatever the Target
\* holds when a batch is about to be written, executing the batch twice
\* leaves the rows and the field values that executing it once leaves,
\* for order_main and for order_detail_main.
C1_UpsertIdempotent ==
  /\ (script = "upsert" /\ pc = "o_write"
        /\ ExecOrders(script, tgtOrders, nextOrderId, batch_data).ok)
     => OrdersTwice(script, tgtOrders, nextOrderId, batch_data).tbl
          = ExecOrders(script, tgtOrders, nextOrderId, batch_data).tbl
  /\ (script = "upsert" /\ pc = "d_write"
        /\ ExecLines(script, tgtOrders, tgtLines, nextDetailId, processed_records).ok)
     => LinesTwice(script, tgtOrders, tgtLines, nextDetailId, processed_records).tbl
          = ExecLines(script, tgtOrders, tgtLines, nextDetailId, processed_records).tbl

\* ------------------------------------------------------------- C2
\* The order_main row a script's conflict target pairs with a Source row.
OrderKeyMatch(sc, t, r) ==
  CASE sc = "upsert"    -> t.faktur_id = r.faktur_id
    [] sc = "composite" -> /\ t.faktur_id = r.faktur_id
                           /\ t.faktur_date = r.faktur_date
                           /\ t.customer_id = r.customer_id
    [] OTHER            -> t.order_id = r.order_id

Poisoned(rows) == {i \in 1..Len(rows) : ~Storable(rows[i].delivery_date)}

\* C2: when the writer has finished with an order batch of several rows
\* in which exactly one row has a date the Target rejects, the other rows of the batch are
\* in order_main and the log names the rejected row by its natural key.
C2_PoisonedRowIsolated ==
  (pc = OrdersRaised /\ Len(batch_data) > 1
     /\ Cardinality(Poisoned(batch_data)) = 1)
    => /\ \A i \in 1..Len(batch_data) :
            i \notin Poisoned(batch_data)
              => \E t \in tgtOrders : OrderKeyMatch(script, t, batch_data[i])
       /\ log = {NaturalKey(batch_data[i]) : i \in Poisoned(batch_data)}

\* ------------------------------------------------------------- C3
\* One step of a script that wraps its write in the retry loop.
C3_Step ==
  HasRetry(script) =>
    \* the batch is attempted only while retries remain ...
    /\ attempts' = attempts + 1 => retry_count < max_retries
    /\ attempts' <= max_retries
    \* ... a failed attempt is rolled back as a whole ...
    /\ retry_count' = retry_count + 1 => tgt' = tgt
    \* ... is raised to main() exactly when it was the last one ...
    /\ retry_count' = retry_count + 1
         => (pc' \in {OrdersRaised, LinesRaised} <=> retry_count' >= max_retries)
    /\ (retry_count' = retry_count + 1 /\ retry_count' < max_retries) => pc' = pc
    \* ... and after the raise the run writes nothing more.
    /\ pc \in {OrdersRaised, LinesRaised}
         => /\ tgtOrders' \subseteq tgtOrders /\ tgtLines' \subseteq tgtLines
            /\ pc' \in {pc, "idle"}

\* C3: a failed write is rolled back and the batch tried again, at most
\* max_retries times; the failure of the last attempt is raised and no
\* later batch of the run is written.
C3_BoundedRetry == [][C3_Step]_vars

\* A batch was attempted max_retries times, more than once, and raised.
C3_Witness ==
  /\ pc = OrdersRaised /\ HasRetry(script)
  /\ max_retries = MaxRetriesBound /\ attempts = max_retries /\ attempts > 1

\* ------------------------------------------------------------- C4
\* One step of the Target: a step that adds or changes a row of a table
\* commits the whole batch in hand on top of the rows committed before.
C4_Step ==
  /\ ~(tgtOrders' \subseteq tgtOrders)
       => /\ pc = "o_write"
          /\ ExecOrders(script, tgtOrders, nextOrderId, batch_data).ok
          /\ tgtOrders' = ExecOrders(script, tgtOrders, nextOrderId, batch_data).tbl
  /\ (~(tgtLines' \subseteq tgtLines) /\ script # "fill")
       => /\ pc = "d_write"
          /\ ExecLines(script, tgtOrders, tgtLines, nextDetailId, processed_records).ok
          /\ tgtLines' = ExecLines(script, tgtOrders, tgtLines, nextDetailId,
                                   processed_records).tbl

C5_ReferentialIntegrity ==
  \A l \in tgtLines : \E o \in tgtOrders : o.order_id = l.order_id

\* Lines committed by the fill path (product P2 comes from the outbound
\* items only) next to lines committed by a copy of the Source.
C5_Witness ==
  /\ \E l \in tgtLines : l.product_id = "P2"
  /\ \E l \in tgtLines : l.quantity_faktur = 10

\* ------------------------------------------------------------- C6
\* No row of order_main has been deleted: every order_id handed out is
\* still there.
NothingDeleted == Cardinality(tgtOrders) = nextOrderId - 1

\* C6: when the order copy has completed twice over a Source that did
\* not change, order_main holds exactly one row for each Source order of
\* the range, the orders without a customer included.
C6_OneRowPerOrder ==
  (script = "composite" /\ pc = "d_count" /\ orderSyncs >= 2 /\ edits = 0
     /\ NothingDeleted)
    => \A o \in srcOrders :
         OrderFilter(script, o)
           => Cardinality({t \in tgtOrders : NaturalKey(t) = NaturalKey(o)}) = 1

\* ------------------------------------------------------------- C7
HasResolver(sc) == sc \in {"composite", "april"}

\* The rows of a fetched page whose lookup by natural key found no order.
NotFound(sc, O, rows) ==
  {i \in 1..Len(rows) : rows[i].customer_id # NULL /\ Lookup(sc, O, rows[i]) = {}}

\* A step that fetched and resolved a page of lines.
ResolvedAPage ==
  /\ pc = "d_loop" /\ pc' \in {"d_loop", "d_write"}
  /\ pc' # pc \/ offset' # offset

\* What C7 asks of a step that resolved a page with NotFound rows.
C7_Step ==
  (HasResolver(script) /\ ResolvedAPage
     /\ NotFound(script, tgtOrders, batch_data') # {})
    => /\ failed_count' >= failed_count
                             + Cardinality(NotFound(script, tgtOrders, batch_data'))
       /\ \A i \in NotFound(script, tgtOrders, batch_data') :
            NaturalKey(batch_data'[i]) \in log'
       /\ Len(processed_records')
            = Len(batch_data') - NumUnresolved(script, tgtOrders, batch_data')
       /\ offset' >= offset

\* C7: the lines of a page whose parent the resolver did not find are
\* counted, logged with their natural key and left out of the rows to
\* write; the other rows of the page go on to be written and the page is
\* not fetched again.
C7_NotFoundSkippedAndCounted == [][C7_Step]_vars

\* ------------------------------------------------------------- C8
\* C8: a fetched line whose parent order has no customer, and whose
\* parent is in order_main under the same faktur_id and faktur_date with
\* a NULL customer, is among the rows to write, under that order's id.
C8_NullCustomerResolved ==
  (HasResolver(script) /\ pc \in {"d_loop", "d_write"})
    => \A i \in 1..Len(batch_data) :
         \A t \in tgtOrders :
           (batch_data[i].customer_id = NULL /\ NaturalKey(t) = NaturalKey(batch_data[i]))
             => \E j \in 1..Len(processed_records) :
                  /\ processed_records[j].product_id = batch_data[i].product_id
                  /\ processed_records[j].line_id = batch_data[i].line_id
                  /\ NaturalKey(processed_records[j]) = NaturalKey(t)

\* ------------------------------------------------------------- C9
\* The scripts that copy orders and then their lines.
CopiesOrders(sc) == sc \in {"upsert", "composite", "simple", "april"}

\* What C9 asks of a step of a script that copies orders, then lines.
C9_Step ==
  CopiesOrders(script) =>
    /\ ~(tgtLines' \subseteq tgtLines) => ordersDone
    /\ pc \in {"d_count", "d_loop", "d_write"} => ordersDone
    /\ pc = "o_failed" => tgtLines' \subseteq tgtLines /\ pc' \in {pc, "idle"}

\* C9: an invocation adds or changes a row of order_detail_main only
\* after its order copy has returned, every order batch committed; when
\* the order copy raises, the invocation writes no line.
C9_OrdersBeforeLines == [][C9_Step]_vars

\* Lines are being written after an order copy of more than one batch.
C9_Witness ==
  /\ CopiesOrders(script) /\ pc = "d_loop" /\ copied_count > 0
  /\ tgtLines # {} /\ Cardinality(tgtOrders) > BatchSize

\* ------------------------------------------------------------ C10
\* Whether a later row of the batch has the conflict key of row i.
Superseded(sc, rows, i) ==
  \E j \in (i + 1)..Len(rows) : OrderKeyMatch(sc, rows[j], rows[i])

\* A step that committed the order batch in hand.
CommittedOrders == pc = "o_write" /\ pc' = "o_loop" /\ attempts' = attempts + 1

\* What C10 asks of a step that committed an order batch.
C10_Step ==
  (CopiesOrders(script) /\ CommittedOrders)
    => \A i \in 1..Len(batch_data) :
         ((\E t \in tgtOrders : OrderKeyMatch(script, t, batch_data[i]))
            /\ ~Superseded(script, batch_data, i))
           => \E t \in tgtOrders' :
                /\ OrderKeyMatch(script, t, batch_data[i])
                /\ t.warehouse_id = batch_data[i].warehouse_id
                /\ t.status = batch_data[i].status
                /\ t.created_by = batch_data[i].created_by
                /\ t.delivery_date = batch_data[i].delivery_date

\* C10: when an order batch commits, each of its rows that found its
\* order already in order_main has overwritten every non-key column: the
\* Target row equals the Source row on them.
C10_NonKeyColumnsOverwritten == [][C10_Step]_vars

\* ------------------------------------------------------------ C11
\* The columns of a fetched line that come from the Source.
SourceColumns(r) ==
  << r.product_id, r.line_id, r.quantity_faktur, r.faktur_id, r.faktur_date,
     r.customer_id >>

\* The Source lines of the requested range and partition.
LinesInRange ==
  { SourceColumns(JoinedLine(x[1], x[2], 0)) :
      x \in { y \in srcLines \X srcOrders :
                y[1].order_id = y[2].order_id /\ InRangeOrder(y[2]) } }

\* The listing s holds every element of S, each once.
ExactlyOnce(s, S) == Len(s) = Cardinality(S) /\ Range(s) = S

\* What C11 asks of the step on which a copy loop ends normally.
C11_Step ==
  CopiesOrders(script) =>
    /\ (pc = "o_loop" /\ pc' = "d_count")
         => ExactlyOnce(fetched, {o \in srcOrders : OrderFilter(script, o)})
    /\ (pc = "d_loop" /\ pc' = "done")
         => ExactlyOnce([i \in 1..Len(fetched) |-> SourceColumns(fetched[i])],
                        LinesInRange)

\* C11: when a copy loop has gone through its pages, offset growing by
\* the page size, over a Source that did not change, the pages together
\* hold every Source row of the range and partition exactly once.
C11_PagesCoverSource == [][C11_Step]_vars

\* ------------------------------------------------------------ C12
\* C12: every line a copy has fetched is a Source line whose order is of
\* the requested warehouse with its faktur_date in the range, and every
\* row of order_detail_main hangs under such an order of order_main.
C12_PartitionAndRange ==
  /\ (CopiesOrders(script) /\ pc \in {"d_loop", "d_write"})
       => \A i \in 1..Len(batch_data) : SourceColumns(batch_data[i]) \in LinesInRange
  /\ \A l \in tgtLines :
       \E o \in tgtOrders : o.order_id = l.order_id /\ InRangeOrder(o)

\* ------------------------------------------------------------ C13
\* C13: a run that has started comes to its end: main() returns, or it
\* exits on the exception of an exhausted batch.
C13_RunTerminates == Running ~> ~Running

\* ------------------------------------------------------------ C14
\* What C14 asks of the step on which the order copy raises to main().
C14_Step ==
  (HasRetry(script) /\ pc = "o_write" /\ pc' = OrdersRaised)
    => ExecOrders(script, tgtOrders, nextOrderId, batch_data).ok

\* C14: a run is only ever aborted by an error of the infrastructure: the
\* batch whose write raised to main() is one the Target accepts, never a
\* batch that failed on the data of one of its rows.
C14_OnlyInfrastructureAborts == [][C14_Step]_vars

\* ------------------------------------------------------------ C15
\* C15: when copy_order_details_optimized has returned, the first number
\* it returned is the number of rows its batches committed and the second
\* the number of items it skipped.
C15_CountsMatchCommitted ==
  (script = "optimized" /\ pc = "done") => result = << written, failed_count >>

\* The same of insert_order_detail_records of the fill script: the count
\* it returns is the number of rows its commit added to order_detail_main.
C15_FillStep ==
  (script = "fill" /\ pc = "f_insert" /\ pc' = "done")
    => copied_count' = Cardinality(tgtLines') - Cardinality(tgtLines)

C15_FillCountMatchesCommitted == [][C15_FillStep]_vars

\* ------------------------------------------------------------ C16
\* The two date arguments do not give a range: one of them is no date, or
\* the start is after the end.
InvalidRange(a, b) ==
  \/ ~strptime(a).ok \/ ~strptime(b).ok
  \/ DateAfter(strptime(a), strptime(b))

\* C16: an entry point given an invalid date range opens no connection
\* and issues no statement.
C16_InvalidRangeRejectedFirst ==
  (argv # << >> /\ InvalidRange(argv[1], argv[2])) => conns = 0 /\ queries = 0

\* ------------------------------------------------------------ C17
\* The range a comparison in hand was called with.
CalledLo == DayNumber(strptime(argv[1]))
CalledHi == DayNumber(strptime(argv[2]))

\* The indices of the returned list that carry key k.
RecordsOf(k) == { i \in 1..Len(result[2]) : result[2][i].do_number = k }

\* C17: the list compare_data_by_date_range returns holds exactly one
\* record for every do_number whose line count differs between Source and
\* Target in the range, with the two counts and their absolute
\* difference, and none for a do_number whose counts are equal: for
\* stores with the same rows it is empty, and with one row removed from
\* the Target it is the one record of that row's key, the Target count
\* one below the Source count.
C17_OneRecordPerDifferingKey ==
  (script = "compare" /\ pc = "c_done" /\ result[1] = "ok")
    => /\ \A o \in srcOrders :
            LET k == o.do_number
                a == CountA(k, CalledLo, CalledHi)
                b == CountB(k, CalledLo, CalledHi)
            IN /\ a = b => RecordsOf(k) = {}
               /\ a # b
                    => /\ Cardinality(RecordsOf(k)) = 1
                       /\ \A i \in RecordsOf(k) :
                            /\ result[2][i].db_a_count = a
                            /\ result[2][i].db_b_count = b
                            /\ result[2][i].discrepancy_count
                                 = (IF a > b THEN a - b ELSE b - a)
       /\ \A i \in 1..Len(result[2]) :
            \E o \in srcOrders : o.do_number = result[2][i].do_number
       /\ (srcLines = LinePool /\ cleansedItems = {ItemOf(l) : l \in LinePool})
            => result[2] = << >>
       /\ (srcLines = LinePool
             /\ \E l \in LinePool : cleansedItems = {ItemOf(m) : m \in LinePool \ {l}})
            => Len(result[2]) <= 1
                 /\ \A i \in 1..Len(result[2]) :
                      result[2][i].db_b_count = result[2][i].db_a_count - 1

\* One row has been removed from the Target and the comparison returned
\* the one record of its key; elsewhere the Source lost a row and the
\* Target count is the higher one.
C17_Witness ==
  /\ script = "compare" /\ pc = "c_done" /\ result[1] = "ok"
  /\ srcLines = LinePool
  /\ Cardinality(cleansedItems) = Cardinality(LinePool) - 1
  /\ Len(result[2]) = 1
  /\ result[2][1].db_b_count = result[2][1].db_a_count - 1

\* ------------------------------------------------------------ C18
\* C18: the number of missing orders find_missing_orders reports is the
\* number of Source orders of the range and warehouse whose order_id is
\* not in order_main, also when the list it shows is capped.
C18_TrueTotalReported ==
  (script = "missing" /\ pc = "c_done")
    => result[3] = Cardinality({o \in srcOrders :
                                  InRangeOrder(o) /\ o.order_id \notin existing_order_ids})

\* ------------------------------------------------------------ C19
\* A step of a comparison: the service's, or one of the debug script's.
ComparisonStep == pc' = "c_done"

\* C19: a comparison leaves every table of the Source and of the Target
\* as it found it, whether it returns discrepancies, none, or raises.
C19_Step ==
  ComparisonStep
    => /\ src' = src /\ tgt' = tgt
       /\ cleansedDocs' = cleansedDocs /\ cleansedItems' = cleansedItems
       /\ cleanPayload' = cleanPayload /\ payloadResults' = payloadResults

C19_ComparisonReadOnly == [][C19_Step]_vars

\* A comparison over stores that differ has raised.
C19_Witness ==
  /\ script = "compare" /\ pc = "c_done" /\ result[1] = "raised"
  /\ cleansedItems # {} /\ Cardinality(cleansedItems) < Cardinality(srcLines)

\* ------------------------------------------------------------ C20
\* The row of a key in order_clean_payload is the payload p, attributes
\* and document.
StoredWholesale(T, p) ==
  \A r \in T :
    r.outbound_reference = p.outbound_reference
      => /\ r.warehouse_id = p.warehouse_id
         /\ r.payload_data = p.payload_data
         /\ r.faktur_date = p.faktur_date

\* C20: after every persist step each payload store holds at most one
\* row per business key, and a committed persist of a payload leaves the
\* row of its key equal to the newly assembled document and attributes.
C20_Step ==
  /\ \A r1, r2 \in cleanPayload' :
       r1.outbound_reference = r2.outbound_reference => r1 = r2
  /\ \A r1, r2 \in payloadResults' :
       r1.do_number = r2.do_number => r1 = r2
  /\ (pc = "p_save" /\ script = "payload" /\ copied_count' = copied_count + 1)
       => StoredWholesale(cleanPayload', Head(batch_data))

C20_OneRowPerKeyOverwritten == [][C20_Step]_vars

\* ------------------------------------------------------------ C21
\* An assembly has returned a payload.
Assembled == pc = "a_done" /\ result[1] = "ok"

\* The item rows of the one document the stores hold.
DocumentItems == UNION { d.items : d \in outbound }

\* C21: the payload of a document with no item row has items = [], and
\* in every payload an item built from a row with no conversion row has
\* conversion = [] (an array in both cases, of as many entries as rows).
C21_EmptyArraysNotNull ==
  Assembled
    => /\ Len(result[2].items) = Cardinality(DocumentItems)
       /\ DocumentItems = {} => result[2].items = << >>
       /\ \A i \in 1..Len(result[2].items) :
            \A x \in DocumentItems :
              (x.conversions = << >>
                 /\ StrOrEmpty(x.line_id) = StrOrEmpty(result[2].items[i].line_id))
                => result[2].items[i].conversion = << >>

\* The payload of a document with no item row has been assembled.
C21_Witness ==
  /\ Assembled
  /\ DocumentItems = {}
  /\ result[2].items = << >>

\* ------------------------------------------------------------ C22
\* The scalars of a payload object, item objects and conversion objects
\* are all non-null.
NonNullScalars(p) ==
  /\ p.warehouse_id # NULL /\ p.outbound_reference # NULL /\ p.faktur_date # NULL
  /\ \A i \in 1..Len(p.items) :
       /\ p.items[i].line_id # NULL /\ p.items[i].uom # NULL
       /\ p.items[i].qty # None
       /\ \A j \in 1..Len(p.items[i].conversion) :
            /\ p.items[i].conversion[j].uom # NULL
            /\ p.items[i].conversion[j].numerator # None
            /\ p.items[i].conversion[j].denominator # None

\* C22: every scalar of an assembled payload is non-null whatever
\* columns of the rows it was built from are NULL.
C22_ScalarsCoalesced == Assembled => NonNullScalars(result[2])

\* ------------------------------------------------------------ C23
\* The arguments of the transform in hand.
raw_qty == argv[1]
unit == argv[2]
conversion == argv[3]

\* C23: for a unit among PCS, CTN, BOX and empty, the base quantity and
\* total_pcs returned by calculate_quantities (copy_order_details) and
\* calculate_quantities_optimized are raw_qty for PCS, else raw_qty times
\* the numerator when a conversion is present, else raw_qty.
C23_BaseQuantityRule ==
  (pc = "q_done" /\ script \in {"details", "optimized"}
     /\ unit \in {"PCS", "CTN", "BOX", ""}
     /\ (conversion # None => conversion[1].numerator # None))
    => /\ result[1] = "ok"
       /\ result[2].quantity_faktur = result[2].total_pcs
       /\ result[2].quantity_faktur =
            (IF unit = "PCS" THEN Some(raw_qty)
             ELSE IF conversion # None
                  THEN Some(raw_qty * conversion[1].numerator[1])
                  ELSE Some(raw_qty))

\* ------------------------------------------------------------ C24
\* C24: whenever one of the three transforms returns, total_ctn is
\* raw_qty if the unit is CTN in either case, and 0 or null for every
\* other unit.
C24_TotalCtnOnlyForCtn ==
  (pc = "q_done" /\ result[1] = "ok")
    => IF unit \in {"CTN", "ctn"}
       THEN result[2].total_ctn = Some(raw_qty)
       ELSE result[2].total_ctn \in {None, Some(0)}

\* ------------------------------------------------------------ C25
\* C25: each of the three transforms returns a result for every raw
\* quantity, unit (NULL and empty among them) and conversion.
C25_TransformTotal == pc = "q_done" => result[1] = "ok"

\* ------------------------------------------------------------ C26
\* Every order_main and order_detail_main row is still there, by its
\* primary key, after the step.
NoRowDeleted ==
  /\ \A o \in tgtOrders : \E p \in tgtOrders' : p.order_id = o.order_id
  /\ \A l \in tgtLines : \E m \in tgtLines' : m.order_detail_id = l.order_detail_id

\* C26: no step of a sync or fill run removes a row of order_main or
\* order_detail_main (the operator's clean_april_data.py is not a step of
\* a run).
C26_Step == ProcessStep => NoRowDeleted

C26_SyncNeverDeletes == [][C26_Step]_vars

\* ------------------------------------------------------------ C27
\* The row keeps the operational quantities it had.
KeepsOperational(t, u) ==
  /\ u.quantity_wms = t.quantity_wms
  /\ u.quantity_delivery = t.quantity_delivery
  /\ u.quantity_loading = t.quantity_loading
  /\ u.quantity_unloading = t.quantity_unloading

\* C27: a write of the outbound-document path (insert_order_details,
\* insert_order_details_batch) leaves the operational quantities of every
\* line it finds in order_detail_main as they were.
C27_Step ==
  (pc = "idle" /\ pc' = "done")
    => \A t \in tgtLines : \A u \in tgtLines' :
         u.order_detail_id = t.order_detail_id => KeepsOperational(t, u)

C27_OperationalUntouched == [][C27_Step]_vars

\* ------------------------------------------------------------ C28
\* C28: no run of an operation of the repository changes the Source
\* tables "order" and order_detail.
C28_Step == src' = src

C28_SourceReadOnly == [][C28_Step]_vars

\* ------------------------------------------------------------ C29
\* The warehouse of the order_main row a line hangs under, in table O.
LineWarehouses(O, l) == { o.warehouse_id : o \in {t \in O : t.order_id = l.order_id} }

\* The step is taken by the invocation for warehouse p.
StepOf(p) == pc'[p] # pc[p]

\* C29: with the invocations of two warehouses interleaved, a step of one
\* adds, changes or removes no order_main row of the other warehouse and
\* no order_detail_main row under an order of the other warehouse.
C29_Step ==
  \A p \in Invocations :
    StepOf(p)
      => /\ \A t \in (tgtOrders' \ tgtOrders) \cup (tgtOrders \ tgtOrders') :
              t.warehouse_id = p
         /\ \A l \in (tgtLines' \ tgtLines) \cup (tgtLines \ tgtLines') :
              LineWarehouses(tgtOrders, l) = {p}

C29_DisjointPartitions == [][C29_Step]_vars

\* ------------------------------------------------------------ C30
SameLineKey(a, b) ==
  /\ a.order_id = b.order_id
  /\ a.product_id = b.product_id
  /\ a.line_id = b.line_id

\* C30: in every state of the Target, whatever sync and fill runs came
\* before, no two rows of order_detail_main have the same
\* (order_id, product_id, line_id).
C30_LineKeyUnique == \A a, b \in tgtLines : SameLineKey(a, b) => a = b

\* ------------------------------------------------------------ C31
\* The step stays inside the page loop of the order copy / the line copy
\* (or leaves it by an exception or by the loop's end).
InOrderLoop == pc \in {"o_loop", "o_write"} /\ pc' \in {"o_loop", "o_write", OrdersRaised}
InLineLoop == pc \in {"d_loop", "d_write"} /\ pc' \in {"d_loop", "d_write", LinesRaised, "done"}

\* The step committed the page in hand to order_main / order_detail_main.
OrderPageCommitted ==
  /\ pc = "o_write"
  /\ ExecOrders(script, tgtOrders, nextOrderId, batch_data).ok
  /\ tgtOrders' = ExecOrders(script, tgtOrders, nextOrderId, batch_data).tbl

LinePageCommitted ==
  /\ pc = "d_write"
  /\ ExecLines(script, tgtOrders, tgtLines, nextDetailId, processed_records).ok
  /\ tgtLines' = ExecLines(script, tgtOrders, tgtLines, nextDetailId, processed_records).tbl

\* The step fetched a page of which no row resolved to an order.
PageSkipped == pc = "d_loop" /\ batch_data' # << >> /\ processed_records' = << >>

\* The step is a write attempt that raised.
AttemptFailed == pc \in {"o_write", "d_write"} /\ retry_count' = retry_count + 1

\* C31: inside a page loop the offset never decreases; when it moves it
\* moves by exactly one page size, in a step that committed the page or
\* skipped every row of it; an attempt that raised leaves it as it was.
C31_Step ==
  /\ (InOrderLoop \/ InLineLoop) => offset' >= offset
  /\ (InOrderLoop /\ offset' # offset)
       => (offset' = offset + BatchSize /\ OrderPageCommitted)
  /\ (InLineLoop /\ offset' # offset)
       => (offset' = offset + BatchSize /\ (LinePageCommitted \/ PageSkipped))
  /\ AttemptFailed => offset' = offset

C31_OffsetMonotone == [][C31_Step]_vars

\* A page of lines was committed after a failed attempt and the offset
\* stands one page further.
C31_Witness ==
  /\ pc = "d_loop" /\ offset = BatchSize /\ attempts >= 2
  /\ tgtLines # {}

\* ------------------------------------------------------------ C32
\* The rows insert_order_detail_records has an order for, and the line
\* each of them is written as.
FillRowsOf ==
  {i \in 1..Len(processed_records) :
     OrderMapping(batch_data, processed_records[i].document_reference) # 0}

FillRowOf(i) ==
  FilledLine(processed_records[i],
             OrderMapping(batch_data, processed_records[i].document_reference))

KeptIn(T, r) ==
  \E t \in T : /\ t.order_id = r.order_id /\ t.product_id = r.product_id
               /\ t.line_id = r.line_id /\ t.quantity_faktur = r.quantity_faktur

\* C32: when the per-row writer of the fill path has committed, at most
\* the one row whose INSERT raised is absent from order_detail_main; the
\* rows inserted before it and after it are there.
C32_Step ==
  (script = "fill" /\ pc = "f_insert" /\ pc' = "done")
    => Cardinality({i \in FillRowsOf : ~KeptIn(tgtLines', FillRowOf(i))}) <= 1

C32_OnlyOffendingRowExcluded == [][C32_Step]_vars

\* ------------------------------------------------------------ C33
\* The Target orders the order_mapping of the fill path has under one
\* faktur_id.
MappedOrders(f) == {o \in OrdersWithoutDetails : o.faktur_id = f}

\* The lookup query of every line copy that has one returns at most one
\* order_id for the natural key of any Source order.
C33_LookupUnique ==
  \A sc \in ScriptsOf(schema) \cap {"composite", "april", "simple"} :
    \A r \in srcOrders : Cardinality(Lookup(sc, tgtOrders, r)) <= 1

\* C33: in every state of the Target each resolver finds at most one
\* order for a key: the lookup queries of the line copies by their
\* predicate, the order_mapping of the fill path by faktur_id; which id
\* a line is put under does not depend on the order of the rows returned.
C33_ResolverSingleValued ==
  /\ C33_LookupUnique
  /\ \A o \in OrdersWithoutDetails : Cardinality(MappedOrders(o.faktur_id)) <= 1

\* ------------------------------------------------------------ C34
\* The order had no line when the fill run read order_main, and is of
\* the run's warehouse and dates.
WasWithoutDetails(oid) ==
  \E o \in tgtOrders :
    /\ o.order_id = oid
    /\ o.warehouse_id = Warehouse /\ InDates(o)
    /\ ~\E l \in tgtLines : l.order_id = oid

\* C34: the writing step of a fill run adds lines only under orders of
\* the warehouse and dates that had no line, and leaves every line that
\* was there as it was.
C34_Step ==
  (script = "fill" /\ pc = "f_insert" /\ pc' \in {"done", LinesRaised})
    => /\ tgtLines \subseteq tgtLines'
       /\ \A l \in tgtLines' \ tgtLines : WasWithoutDetails(l.order_id)

C34_FillOnlyOrdersWithoutLines == [][C34_Step]_vars

\* A fill run has committed lines while another order keeps the line a
\* sync run gave it.
C34_Witness ==
  /\ script = "fill" /\ pc = "done" /\ copied_count > 0
  /\ \E l, k \in tgtLines :
       /\ l.order_id # k.order_id
       /\ l.product_id = "P2" /\ k.product_id = "P1"
       /\ k.order_detail_id < l.order_detail_id

\* ------------------------------------------------------------ C35
\* A fill run has ended at its last line with every one of its rows
\* inserted and committed: no row passed over, none raised.
FillCompletedClean ==
  /\ script = "fill" /\ pc = "done" /\ copied_count > 0
  /\ copied_count = Cardinality(FillRowsOf)
  /\ \A i \in FillRowsOf : KeptIn(tgtLines, FillRowOf(i))

\* order_detail_main as the next fill run over the same dates would
\* commit it, no statement of that run raising.
AfterRefill ==
  { FillRows(tgtOrders, tgtLines, nextDetailId, tgtLines, nextDetailId,
             orders, data, 1, 0, 0).tbl :
      orders \in OrderedBy(OrdersWithoutDetails),
      data \in OutboundData(OrdersWithoutDetails) }

\* C35: where a fill run has completed without errors, running the fill
\* path again over the same dates and the same outbound documents
\* inserts nothing: order_detail_main stays as the first run left it.
C35_RefillChangesNothing == FillCompletedClean => AfterRefill = {tgtLines}

\* ------------------------------------------------------------ C36
\* C36: each turn of the loop of save_payloads_to_database either commits
\* its payload on top of what the turns before committed, or leaves
\* order_clean_payload as those turns left it; when the loop ends the
\* count returned is the number of payloads committed.
C36_Step ==
  (pc = "p_save" /\ script = "payload")
    => /\ \/ /\ written' = written + 1
             /\ cleanPayload' = UpsertPayload(cleanPayload, Head(batch_data))
          \/ /\ written' = written
             /\ cleanPayload' = cleanPayload
       /\ pc' = "done" => result' = << written' >>

C36_PayloadsCommittedOneByOne == [][C36_Step]_vars

\* Of three payloads the second was rolled back; the first and the third
\* are in order_clean_payload and the count returned is 2.
C36_Witness ==
  /\ script = "payload" /\ pc = "done" /\ runs = 1 /\ edits = 0
  /\ Cardinality(outbound) = 3
  /\ result = << 2 >>
  /\ \E r \in cleanPayload : r.outbound_reference = "F1"
  /\ \E r \in cleanPayload : r.outbound_reference = "F5" /\ r.warehouse_id = "W2"

\* ------------------------------------------------------------ C37
\* total_ctn with 0 and NULL taken as the same.
CtnValue(c) == IF c = None THEN 0 ELSE c[1]

\* Two returns of a transform are the same: both raised, or both returned
\* the same base quantity, total_pcs and total_ctn.
SameQuantities(a, b) ==
  /\ a[1] = b[1]
  /\ a[1] = "ok" => /\ a[2].quantity_faktur = b[2].quantity_faktur
                    /\ a[2].total_pcs = b[2].total_pcs
                    /\ CtnValue(a[2].total_ctn) = CtnValue(b[2].total_ctn)

\* C37: whichever of the three transforms was called, what it returned
\* is what each of the three returns for the same quantity, unit and
\* conversion.
C37_TransformsAgree ==
  pc = "q_done"
    => /\ SameQuantities(result, DetailsQuantities(raw_qty, unit, conversion))
       /\ SameQuantities(result, OptimizedQuantities(raw_qty, unit, NumeratorOf(conversion),
                                                     DenominatorOf(conversion)))
       /\ SameQuantities(result, FillQuantities(raw_qty, unit, conversion))

\* ------------------------------------------------------------ C38
\* The order is of the warehouse given on the command line and of April
\* 2025.
AprilOfWarehouse(o) == o.warehouse_id = Warehouse /\ InApril(o)

\* C38: a step of the April clean-up removes only orders of the given
\* warehouse dated in April 2025 and the lines under them; every other
\* order and line is kept as it was and none is added.
C38_Step ==
  /\ tgtOrders' \subseteq tgtOrders
  /\ tgtLines' \subseteq tgtLines
  /\ \A o \in tgtOrders \ tgtOrders' : AprilOfWarehouse(o)
  /\ \A l \in tgtLines \ tgtLines' :
       \E o \in tgtOrders : o.order_id = l.order_id /\ AprilOfWarehouse(o)

C38_CleanupScoped == [][C38_Step]_vars

====
